---- MODULE Spec2Model ----
(***************************************************************************)
(* Verification model of the collaborative BPMN editing core:              *)
(*   - SilentCommandStack      (command executor with a silent mode)       *)
(*   - SilentUpdateService     (silent mutation layer, render gate, batch) *)
(*   - SilentModeling          (element-object based silent batch)         *)
(*   - CollaborationEventManager (event mediator: echo guard, debounce)    *)
(*   - handleCollaboration     (server: session roster)                    *)
(*   - setupSocketHandlers     (server: socket events and room broadcast)  *)
(* Each component has its own specification over the shared variables.     *)
(***************************************************************************)
EXTENDS Integers, Sequences, FiniteSets, TLC

VARIABLES
    \* ---- SilentCommandStack ----
    silentMode,       \* _silentMode
    handlers,         \* _handlers: the registered command names
    fired,            \* events handed to eventBus.fire, in order
    stackCall,        \* observation of the last call made on the stack
    \* ---- SilentUpdateService / SilentModeling (editor internals) ----
    elements,         \* elementRegistry._elements: id -> element
    suspended,        \* canvas._suspendRendering
    applied,          \* mutation-layer calls made by the last batch, in order
    svcCall,          \* observation of the last call made on the service
    large,            \* batchUpdateLarge in progress: its chunks and position
    \* ---- CollaborationEventManager ----
    isProcessingRemoteEvent,
    remoteEventSources,
    eventSourceHistory,
    changeTracker,
    changeBuffer,
    debounceTimer,    \* deadline of the pending debounce timeout, or NoTimer
    markTimers,       \* pending setTimeout callbacks of markAsRemoteEvent
    sweepAt,          \* next tick of the cleanup interval
    onLocalChangeCallback,
    onRemoteChangeCallback,
    outbound,         \* changes handed to the onLocalChange callback, in order
    now,              \* Date.now()
    ticks,            \* number of clock advances made (bounds the run)
    remoteApplied,    \* per id: when a remote change was last applied to it
    burst,            \* per id: the last accepted change of the running burst
    medCall,          \* observation of the last mediator call or event
    \* ---- server: collaboration sessions and socket handlers ----
    sessions,         \* the CollaborationSession collection, in insertion order
    serverClock,      \* the server's new Date()
    sockets,          \* per socket id: connected, socket.data, rooms joined
    delivered,        \* what the last socket handler emitted, per receiving socket
    serverCall,       \* observation of the last server call or socket event
    presence,         \* the Redis presence cache: user:U:socket and socket:S:user
    inflight          \* roster handlers waiting at an await, with what they loaded

stackVars == <<silentMode, handlers, fired, stackCall>>
svcVars == <<elements, suspended, applied, svcCall, large>>
medVars == <<isProcessingRemoteEvent, remoteEventSources, eventSourceHistory,
             changeTracker, changeBuffer, debounceTimer, markTimers, sweepAt,
             onLocalChangeCallback, onRemoteChangeCallback, outbound, now,
             ticks, remoteApplied, burst, medCall>>
medData == <<isProcessingRemoteEvent, remoteEventSources, eventSourceHistory,
             changeTracker, changeBuffer, debounceTimer, markTimers, sweepAt,
             onLocalChangeCallback, onRemoteChangeCallback, outbound, now,
             ticks, remoteApplied, burst>>
serverVars == <<sessions, serverClock, sockets, delivered, serverCall, presence,
               inflight>>
vars == <<stackVars, svcVars, medVars, serverVars>>

Null == "null"

\* ------------------------------------------------------------------------
\* Small helpers
\* ------------------------------------------------------------------------
Range(s) == {s[k] : k \in 1..Len(s)}

SeqsUpTo(S, n) == UNION {[1..k -> S] : k \in 0..n}

RECURSIVE FilterSeq(_, _)
FilterSeq(s, keep) ==
    IF s = <<>> THEN <<>>
    ELSE IF Head(s) \in keep THEN <<Head(s)>> \o FilterSeq(Tail(s), keep)
         ELSE FilterSeq(Tail(s), keep)

\* ========================================================================
\* SilentCommandStack
\* ========================================================================
MaxFired == 2

\* Command handlers the editor registers.  A handler is foreign code; these
\* bodies cover: plain return, throw, and handlers that re-enter the stack.
CmdOk == "cmd.ok"
CmdFail == "cmd.fail"
CmdOuterOk == "cmd.outerOk"          \* handler calls executeSilently(cmd.ok)
CmdOuterFail == "cmd.outerFail"      \* handler calls executeSilently(cmd.fail)
CmdOuterPlain == "cmd.outerPlain"    \* handler calls execute(cmd.ok)
Commands == {CmdOk, CmdFail, CmdOuterOk, CmdOuterFail, CmdOuterPlain}

HandlerBody(command) ==
    CASE command = CmdFail -> <<[op |-> "throw", command |-> Null]>>
      [] command = CmdOuterOk -> <<[op |-> "executeSilently", command |-> CmdOk]>>
      [] command = CmdOuterFail -> <<[op |-> "executeSilently", command |-> CmdFail]>>
      [] command = CmdOuterPlain -> <<[op |-> "execute", command |-> CmdOk]>>
      [] OTHER -> <<>>

\* A stack state during a call: st = [silent, fired, threw, obs, calls]
\*   obs: the silent flag seen by a handler right after an inner call ended.
\*   calls: the execute calls made by executeBatchSilently's map, in order.
RECURSIVE ExecuteOn(_, _, _)
RECURSIVE ExecuteSilentlyOn(_, _, _)
RECURSIVE RunHandler(_, _, _)

\* fire: suppressed in silent mode
FireOn(st, command) ==
    IF st.silent THEN st
    ELSE [st EXCEPT !.fired = Append(@, [type |-> "commandStack.changed",
                                          command |-> command])]

\* the statements of a handler body, until one throws
RunHandler(st, regs, body) ==
    IF body = <<>> \/ st.threw THEN st
    ELSE LET step == Head(body)
             after ==
                 CASE step.op = "throw" -> [st EXCEPT !.threw = TRUE]
                   [] step.op = "executeSilently" ->
                        LET r == ExecuteSilentlyOn(st, regs, step.command)
                        IN [r EXCEPT !.obs = Append(@, r.silent)]
                   [] OTHER ->
                        LET r == ExecuteOn(st, regs, step.command)
                        IN [r EXCEPT !.obs = Append(@, r.silent)]
         IN RunHandler(after, regs, Tail(body))

\* (mutant) execute hands the event to the event bus itself, whatever the mode
ExecuteOn_FiresAlways(st, regs, command) ==
    IF command \notin regs THEN [st EXCEPT !.threw = TRUE]
    ELSE LET r == RunHandler(st, regs, HandlerBody(command))
         IN IF r.threw THEN r
            ELSE [r EXCEPT !.fired = Append(@, [type |-> "commandStack.changed",
                                                 command |-> command])]

ExecuteOn(st, regs, command) ==
    IF command \notin regs THEN [st EXCEPT !.threw = TRUE]
    ELSE LET r == RunHandler(st, regs, HandlerBody(command))
         IN IF r.threw THEN r
            ELSE IF ~r.silent THEN FireOn(r, command) ELSE r

\* (mutant) the flag is restored after a normal return only: no finally
ExecuteSilentlyOn_NoFinally(st, regs, command) ==
    LET wasSilent == st.silent
        r == ExecuteOn([st EXCEPT !.silent = TRUE], regs, command)
    IN IF r.threw THEN r ELSE [r EXCEPT !.silent = wasSilent]

\* (mutant) the flag is switched off at the end instead of restored
ExecuteSilentlyOn_SwitchesOff(st, regs, command) ==
    LET r == ExecuteOn([st EXCEPT !.silent = TRUE], regs, command)
    IN [r EXCEPT !.silent = FALSE]

ExecuteSilentlyOn(st, regs, command) ==
    LET wasSilent == st.silent
        r == ExecuteOn([st EXCEPT !.silent = TRUE], regs, command)
    IN [r EXCEPT !.silent = wasSilent]

\* what a command's handler returns
Result(command) == [of |-> command]

\* one this.execute(command, context) made by the map callback: calls keeps
\* the command, whether the call threw, and the value it returned
Executed(st, regs, command) ==
    LET r == ExecuteOn(st, regs, command)
    IN [r EXCEPT !.calls = Append(@, [command |-> command, threw |-> r.threw,
                                      result |-> IF r.threw THEN Null
                                                 ELSE Result(command)])]

\* (mutant) a failed command is passed over and the rest is executed
RECURSIVE MapExecute_PassesOver(_, _, _)
MapExecute_PassesOver(st, regs, commands) ==
    IF commands = <<>> THEN st
    ELSE LET r == Executed([st EXCEPT !.threw = FALSE], regs, Head(commands))
         IN MapExecute_PassesOver([r EXCEPT !.threw = st.threw \/ r.threw],
                                  regs, Tail(commands))

\* commands.map(execute): stops at the first command that throws
RECURSIVE MapExecute(_, _, _)
MapExecute(st, regs, commands) ==
    IF commands = <<>> \/ st.threw THEN st
    ELSE MapExecute(Executed(st, regs, Head(commands)), regs, Tail(commands))

ExecuteBatchSilentlyOn(st, regs, commands) ==
    LET wasSilent == st.silent
        r == MapExecute([st EXCEPT !.silent = TRUE], regs, commands)
    IN [r EXCEPT !.silent = wasSilent]

StackState ==
    [silent |-> silentMode, fired |-> fired, threw |-> FALSE, obs |-> <<>>,
     calls |-> <<>>]

StackInit ==
    /\ silentMode = FALSE
    /\ handlers = {}
    /\ fired = <<>>
    /\ stackCall = [op |-> "new", command |-> Null, commands |-> <<>>,
                    entrySilent |-> FALSE, threw |-> FALSE, firedBefore |-> 0,
                    obs |-> <<>>, calls |-> <<>>]

\* the call's outcome becomes the stack's state; what the caller saw is kept
StackReturn(op, command, commands, r) ==
    /\ Len(r.fired) <= MaxFired
    /\ silentMode' = r.silent
    /\ fired' = r.fired
    /\ stackCall' = [op |-> op, command |-> command, commands |-> commands,
                     entrySilent |-> silentMode, threw |-> r.threw,
                     firedBefore |-> Len(fired), obs |-> r.obs,
                     calls |-> r.calls]
    /\ UNCHANGED <<handlers, svcVars, medVars, serverVars>>

SetSilentMode(silent) ==
    /\ silentMode' = silent
    /\ stackCall' = [op |-> "setSilentMode", command |-> Null, commands |-> <<>>,
                     entrySilent |-> silentMode, threw |-> FALSE,
                     firedBefore |-> Len(fired), obs |-> <<>>, calls |-> <<>>]
    /\ UNCHANGED <<handlers, fired, svcVars, medVars, serverVars>>

RegisterHandler(command) ==
    /\ handlers' = handlers \cup {command}
    /\ stackCall' = [op |-> "registerHandler", command |-> command,
                     commands |-> <<>>, entrySilent |-> silentMode, threw |-> FALSE,
                     firedBefore |-> Len(fired), obs |-> <<>>, calls |-> <<>>]
    /\ UNCHANGED <<silentMode, fired, svcVars, medVars, serverVars>>

Execute(command) ==
    StackReturn("execute", command, <<>>, ExecuteOn(StackState, handlers, command))

ExecuteSilently(command) ==
    StackReturn("executeSilently", command, <<>>,
                ExecuteSilentlyOn(StackState, handlers, command))

MaxCommands == 2

ExecuteBatchSilently(commands) ==
    StackReturn("executeBatchSilently", Null, commands,
                ExecuteBatchSilentlyOn(StackState, handlers, commands))

StackNext ==
    \/ \E silent \in BOOLEAN : SetSilentMode(silent)
    \/ \E command \in Commands : RegisterHandler(command)
    \/ \E command \in Commands : Execute(command)
    \/ \E command \in Commands : ExecuteSilently(command)
    \/ \E commands \in SeqsUpTo(Commands, MaxCommands) : ExecuteBatchSilently(commands)

\* ========================================================================
\* SilentUpdateService (silent mutation layer, render gate, batch executor)
\* ========================================================================
ShapeIds == {"a", "b"}
ConnectionIds == {"c1"}
Ids == ShapeIds \cup ConnectionIds
FactoryId == "Shape_gen"      \* the id elementFactory gives when none is asked for

DefaultWidth == 100
DefaultHeight == 80
MaxAdj == 2                   \* longest incoming/outgoing list explored

\* Objects with optional fields are maps over the fields that are present.
Has(obj, key) == key \in DOMAIN obj

\* obj.key || fallback, for a number (0 is falsy) and for an object
NumberOr(obj, key, fallback) ==
    IF Has(obj, key) /\ obj[key] # 0 THEN obj[key] ELSE fallback

ObjectOr(obj, key, fallback) == IF Has(obj, key) THEN obj[key] ELSE fallback

\* Object.assign(target, source) on objects seen as key -> value maps
ObjectAssign(target, source) ==
    [k \in (DOMAIN target) \cup (DOMAIN source) |->
        IF k \in DOMAIN source THEN source[k] ELSE target[k]]

NoProps == [k \in {} |-> Null]

\* elementFactory.createShape / createConnection (adjacency starts empty)
CreateShape(attrs) ==
    [id |-> FactoryId, kind |-> "shape", type |-> attrs.type,
     businessObject |-> attrs.businessObject,
     geom |-> [x |-> attrs.x, y |-> attrs.y, width |-> attrs.width,
               height |-> attrs.height],
     parent |-> Null, source |-> Null, target |-> Null,
     incoming |-> <<>>, outgoing |-> <<>>]

CreateConnection(attrs) ==
    [id |-> FactoryId, kind |-> "connection", type |-> attrs.type,
     businessObject |-> attrs.businessObject,
     geom |-> [k \in {} |-> Null],
     parent |-> Null, source |-> attrs.source, target |-> attrs.target,
     incoming |-> <<>>, outgoing |-> <<>>]

\* A service state during a call:
\*   sv = [els, susp, redraws, log, painted, threw, failNext, ret]
\*   failNext: the next call into a collaborator (bpmnFactory, canvas,
\*             graphicsFactory) throws;  ret: what the last method returned.
\* A collaborator call: throws when one is due to fail.
Collaborator(sv) ==
    IF sv.failNext THEN [sv EXCEPT !.threw = TRUE, !.failNext = FALSE] ELSE sv

Logged(sv, op, id, idx) ==
    [sv EXCEPT !.log = Append(@, [op |-> op, id |-> id, idx |-> idx,
                                  susp |-> sv.susp])]

\* elementRegistry.get
Registered(sv, id) == id \in DOMAIN sv.els

\* updateGraphicsSilently: graphicsFactory.update on the element's gfx,
\* whatever the render gate says; painted keeps each invocation
UpdateGraphicsSilently(sv, id) ==
    Collaborator([sv EXCEPT !.painted = Append(@, [id |-> id, susp |-> sv.susp])])

UpdateBusinessObjectDirectly(sv, elementId, properties) ==
    IF ~Registered(sv, elementId) THEN [sv EXCEPT !.ret = "null"]
    ELSE LET assigned == [sv EXCEPT
                 !.els[elementId].businessObject = ObjectAssign(@, properties)]
             r == UpdateGraphicsSilently(assigned, elementId)
         IN [r EXCEPT !.ret = "element"]

\* target[part] for every part but the last (an absent part becomes {}),
\* then target[finalProperty] = value.  No part of a path of the model
\* names a property that holds a string.
RECURSIVE SetPath(_, _, _)
SetPath(target, pathParts, value) ==
    IF Len(pathParts) = 1
    THEN ObjectAssign(target, [k \in {pathParts[1]} |-> value])
    ELSE ObjectAssign(target,
             [k \in {Head(pathParts)} |->
                 SetPath(ObjectOr(target, Head(pathParts), NoProps),
                         Tail(pathParts), value)])

\* pathParts: propertyPath.split('.')
SetBusinessObjectProperty(sv, elementId, pathParts, value) ==
    IF ~Registered(sv, elementId) THEN [sv EXCEPT !.ret = "false"]
    ELSE LET assigned == [sv EXCEPT
                 !.els[elementId].businessObject = SetPath(@, pathParts, value)]
             r == UpdateGraphicsSilently(assigned, elementId)
         IN [r EXCEPT !.ret = "true"]

\* businessObject.$parent is kept as the id of the element whose business
\* object it refers to.  No business object of the model has flowElements,
\* so the push into the parent's list is never taken.
SetBusinessObjectParent(sv, elementId, parentElementId) ==
    IF ~Registered(sv, elementId) \/ ~Registered(sv, parentElementId)
    THEN [sv EXCEPT !.ret = "false"]
    ELSE [sv EXCEPT
             !.els[elementId].businessObject =
                 ObjectAssign(@, [k \in {"$parent"} |-> parentElementId]),
             !.ret = "true"]

UpdateVisualPropertiesDirectly(sv, elementId, visualProps) ==
    IF ~Registered(sv, elementId) THEN [sv EXCEPT !.ret = "null"]
    ELSE LET assigned == [sv EXCEPT
                 !.els[elementId].geom = ObjectAssign(@, visualProps)]
             r == UpdateGraphicsSilently(assigned, elementId)
         IN [r EXCEPT !.ret = "element"]

\* (mutant) a registry that keeps the entry it already has for the id
Register_KeepsExisting(els, element) ==
    [i \in (DOMAIN els) \cup {element.id} |->
        IF i \in DOMAIN els THEN els[i] ELSE element]

\* (mutant) a refresh that does not look the element up first
RefreshElementGraphics_Unchecked(sv, elementId) ==
    LET r == UpdateGraphicsSilently(sv, elementId)
    IN [r EXCEPT !.ret = "true"]

RefreshElementGraphics(sv, elementId) ==
    IF ~Registered(sv, elementId) THEN [sv EXCEPT !.ret = "false"]
    ELSE LET r == UpdateGraphicsSilently(sv, elementId)
         IN [r EXCEPT !.ret = "true"]

\* registry._elements[id] = {element, gfx}: an entry of that id is replaced
Register(els, element) ==
    [i \in (DOMAIN els) \cup {element.id} |->
        IF i = element.id THEN element ELSE els[i]]

Unregister(els, id) == [i \in (DOMAIN els) \ {id} |-> els[i]]

AddElementSilently(sv, elementData) ==
    LET made == Collaborator(sv)     \* bpmnFactory.create ... graphicsFactory.create
        shape == CreateShape([type |-> elementData.type,
                     businessObject |-> ObjectOr(elementData, "properties", NoProps),
                     x |-> NumberOr(elementData, "x", 0),
                     y |-> NumberOr(elementData, "y", 0),
                     width |-> NumberOr(elementData, "width", DefaultWidth),
                     height |-> NumberOr(elementData, "height", DefaultHeight)])
        element == IF Has(elementData, "id")
                   THEN [shape EXCEPT !.id = elementData.id] ELSE shape
    IN IF made.threw THEN made
       ELSE [made EXCEPT !.els = Register(@, element), !.ret = "element"]

RECURSIVE RemoveElementSilently(_, _)
RECURSIVE RemoveConnections(_, _, _)

\* connections.forEach(c => c.id !== elementId && removeElementSilently(c.id))
RemoveConnections(sv, connections, elementId) ==
    IF connections = <<>> \/ sv.threw THEN sv
    ELSE LET next == IF Head(connections) # elementId
                     THEN RemoveElementSilently(sv, Head(connections))
                     ELSE sv
         IN RemoveConnections(next, Tail(connections), elementId)

\* (mutant) the element is removed without its connections
RemoveElementSilently_NoCascade(sv, elementId) ==
    IF ~Registered(sv, elementId) THEN [sv EXCEPT !.ret = "false"]
    ELSE LET removed == Collaborator(sv)
         IN IF removed.threw THEN removed
            ELSE [removed EXCEPT !.els = Unregister(@, elementId), !.ret = "true"]

RemoveElementSilently(sv, elementId) ==
    IF ~Registered(sv, elementId) THEN [sv EXCEPT !.ret = "false"]
    ELSE LET element == sv.els[elementId]
             cascaded == RemoveConnections(sv, element.incoming \o element.outgoing,
                                           elementId)
             removed == Collaborator(cascaded)        \* canvas._removeElement
         IN IF cascaded.threw THEN cascaded
            ELSE IF removed.threw THEN removed
            ELSE [removed EXCEPT !.els = Unregister(@, elementId), !.ret = "true"]

\* source.outgoing.push / target.incoming.push act on the objects looked up
\* before the connection was registered: an endpoint whose id the connection
\* itself took over is no longer the registered object.
AddConnectionSilently(sv, connectionData, sourceId, targetId) ==
    IF ~Registered(sv, sourceId) \/ ~Registered(sv, targetId)
    THEN [sv EXCEPT !.ret = "null"]
    ELSE LET made == Collaborator(sv)
             created == CreateConnection([type |-> connectionData.type,
                            businessObject |->
                                ObjectOr(connectionData, "properties", NoProps),
                            source |-> sourceId, target |-> targetId])
             connection == IF Has(connectionData, "id")
                           THEN [created EXCEPT !.id = connectionData.id]
                           ELSE created
             registered == Register(made.els, connection)
             pushedOut == IF sourceId # connection.id
                          THEN [registered EXCEPT ![sourceId].outgoing =
                                    Append(@, connection.id)]
                          ELSE registered
             pushedIn == IF targetId # connection.id
                         THEN [pushedOut EXCEPT ![targetId].incoming =
                                   Append(@, connection.id)]
                         ELSE pushedOut
         IN IF made.threw THEN made
            ELSE [made EXCEPT !.els = pushedIn, !.ret = "element"]

SuspendRenderingOn(sv) == [sv EXCEPT !.susp = TRUE]

ResumeRenderingOn(sv) == [sv EXCEPT !.susp = FALSE, !.redraws = @ + 1]

\* ---- one operation of a batch (the switch of batchUpdate) ----
\* op = [type, fail] plus the optional fields elementId and data; fail says
\* whether a collaborator throws while the operation runs.
RunCreate(sv, op, idx) ==
    IF ~Has(op, "data") THEN sv
    ELSE IF Has(op.data, "connectionData") /\ Has(op.data, "sourceId")
              /\ Has(op.data, "targetId")
         THEN AddConnectionSilently(
                  Logged(sv, "addConnectionSilently",
                         ObjectOr(op.data.connectionData, "id", FactoryId), idx),
                  op.data.connectionData, op.data.sourceId, op.data.targetId)
         ELSE AddElementSilently(
                  Logged(sv, "addElementSilently",
                         ObjectOr(op.data, "id", FactoryId), idx), op.data)

RunBusiness(sv, op, idx) ==
    IF Has(op, "elementId") /\ Has(op, "data")
    THEN UpdateBusinessObjectDirectly(
             Logged(sv, "updateBusinessObjectDirectly", op.elementId, idx),
             op.elementId, op.data)
    ELSE sv

RunVisual(sv, op, idx) ==
    IF Has(op, "elementId") /\ Has(op, "data")
    THEN UpdateVisualPropertiesDirectly(
             Logged(sv, "updateVisualPropertiesDirectly", op.elementId, idx),
             op.elementId, op.data)
    ELSE sv

RunRemove(sv, op, idx) ==
    IF Has(op, "elementId")
    THEN RemoveElementSilently(
             Logged(sv, "removeElementSilently", op.elementId, idx), op.elementId)
    ELSE sv

RunOperation(sv, op, idx) ==
    LET armed == [sv EXCEPT !.failNext = op.fail]
        r == CASE op.type = "business" -> RunBusiness(armed, op, idx)
               [] op.type = "visual" -> RunVisual(armed, op, idx)
               [] op.type = "create" -> RunCreate(armed, op, idx)
               [] op.type = "remove" -> RunRemove(armed, op, idx)
               [] OTHER -> armed                  \* console.warn
    IN [r EXCEPT !.failNext = FALSE]

\* updates.forEach(...): an exception ends the loop.  items = <<[op, idx]>>
RECURSIVE ForEachOperation(_, _)
ForEachOperation(sv, items) ==
    IF items = <<>> \/ sv.threw THEN sv
    ELSE ForEachOperation(RunOperation(sv, Head(items).op, Head(items).idx),
                          Tail(items))

Indexed(updates) == [k \in 1..Len(updates) |-> [op |-> updates[k], idx |-> k]]

RECURSIVE OfType(_, _)
OfType(items, type) ==
    IF items = <<>> THEN <<>>
    ELSE IF Head(items).op.type = type
         THEN <<Head(items)>> \o OfType(Tail(items), type)
         ELSE OfType(Tail(items), type)

\* (mutant) rendering is resumed after the loop, outside any finally
BatchUpdateOn_NoFinally(sv, updates) ==
    IF Len(updates) = 0 THEN sv
    ELSE LET r == ForEachOperation(SuspendRenderingOn(sv), Indexed(updates))
         IN IF r.threw THEN r ELSE ResumeRenderingOn(r)

BatchUpdateOn(sv, updates) ==
    IF Len(updates) = 0 THEN sv
    ELSE ResumeRenderingOn(ForEachOperation(SuspendRenderingOn(sv), Indexed(updates)))

\* (mutant) the groups are not formed: operations run as given
GroupOrder_AsGiven(items) == items

\* the four forEach loops of batchUpdateOptimized, in the order of the code
GroupOrder(items) ==
    OfType(items, "create") \o OfType(items, "business")
        \o OfType(items, "visual") \o OfType(items, "remove")

BatchUpdateOptimizedOn(sv, updates) ==
    IF Len(updates) = 0 THEN sv
    ELSE ResumeRenderingOn(
             ForEachOperation(SuspendRenderingOn(sv), GroupOrder(Indexed(updates))))

\* updates.slice(i, i + chunkSize) for i = 0, chunkSize, ...
RECURSIVE Chunks(_, _)
Chunks(updates, chunkSize) ==
    IF Len(updates) = 0 THEN <<>>
    ELSE IF Len(updates) <= chunkSize THEN <<updates>>
    ELSE <<SubSeq(updates, 1, chunkSize)>>
             \o Chunks(SubSeq(updates, chunkSize + 1, Len(updates)), chunkSize)

\* ========================================================================
\* SilentModeling.executeBatchUpdatesSilently (element-object based batch)
\* ========================================================================
\* update = [type, data] plus the optional field element: the id of the
\* element object the caller looked up (absent: element is undefined).
\* An element removed from the registry earlier in the same batch is a
\* detached object: changing it changes nothing the registry holds.
ModelingUpdate(sv, update) ==
    CASE update.type = "update" ->
           IF ~Has(update, "element") THEN [sv EXCEPT !.threw = TRUE]
           ELSE IF ~Registered(sv, update.element) THEN sv
           ELSE UpdateGraphicsSilently(
                    [sv EXCEPT !.els[update.element].businessObject =
                                   ObjectAssign(@, update.data)],
                    update.element)
      [] update.type = "move" ->
           IF ~Has(update, "element") THEN [sv EXCEPT !.threw = TRUE]
           ELSE IF ~Registered(sv, update.element) THEN sv
           ELSE UpdateGraphicsSilently(
                    [sv EXCEPT !.els[update.element].geom =
                        ObjectAssign(@, [x |-> @.x + update.data.x,
                                         y |-> @.y + update.data.y])],
                    update.element)
      [] update.type = "create" ->
           IF ~Has(update.data, "elementData") \/ ~Has(update.data, "position")
           THEN [sv EXCEPT !.threw = TRUE]
           ELSE LET made == Collaborator(sv)
                    element == CreateShape(
                        [type |-> update.data.elementData.type,
                         businessObject |->
                             ObjectOr(update.data.elementData, "businessObject", NoProps),
                         x |-> update.data.position.x,
                         y |-> update.data.position.y,
                         width |-> NumberOr(update.data.elementData, "width", DefaultWidth),
                         height |-> NumberOr(update.data.elementData, "height", DefaultHeight)])
                IN IF made.threw THEN made
                   ELSE [made EXCEPT !.els = Register(@, element)]
      [] update.type = "remove" ->
           IF ~Has(update, "element") THEN [sv EXCEPT !.threw = TRUE]
           ELSE LET removed == Collaborator(sv)
                IN IF removed.threw THEN removed
                   ELSE [removed EXCEPT !.els =
                            IF Registered(sv, update.element)
                            THEN Unregister(@, update.element) ELSE @]
      [] OTHER -> sv

RECURSIVE ForEachModelingUpdate(_, _)
ForEachModelingUpdate(sv, updates) ==
    IF updates = <<>> \/ sv.threw THEN sv
    ELSE LET armed == [sv EXCEPT !.failNext = Head(updates).fail]
             r == ModelingUpdate(armed, Head(updates))
         IN ForEachModelingUpdate([r EXCEPT !.failNext = FALSE], Tail(updates))

ExecuteBatchUpdatesSilentlyOn(sv, updates) ==
    ResumeRenderingOn(ForEachModelingUpdate(SuspendRenderingOn(sv), updates))

\* ========================================================================
\* BPMNEditor.applySilentUpdate / applySilentBatchUpdates
\* ========================================================================
\* changeEvent = [type, elementId, elementData].  What a try block throws is
\* caught and logged: the model stays as it was left.
Caught(sv) == [sv EXCEPT !.threw = FALSE, !.failNext = FALSE]

ApplySilentUpdateOn(sv, changeEvent) ==
    LET id == changeEvent.elementId
        data == changeEvent.elementData
    IN Caught(
        CASE changeEvent.type = "update" ->
               IF Registered(sv, id) /\ Has(data, "businessObject")
               THEN ModelingUpdate(sv, [type |-> "update", element |-> id,
                                        data |-> data.businessObject])
               ELSE sv
          [] changeEvent.type = "move" ->
               IF Registered(sv, id) /\ Has(data, "x") /\ Has(data, "y")
               THEN ModelingUpdate(sv,
                        [type |-> "move", element |-> id,
                         data |-> [x |-> data.x - sv.els[id].geom.x,
                                   y |-> data.y - sv.els[id].geom.y]])
               ELSE sv
          [] changeEvent.type = "create" ->
               ModelingUpdate(sv,
                   [type |-> "create",
                    data |-> [elementData |-> data,
                              position |-> [x |-> NumberOr(data, "x", 0),
                                            y |-> NumberOr(data, "y", 0)]]])
          [] changeEvent.type = "delete" ->
               IF Registered(sv, id)
               THEN ModelingUpdate(sv, [type |-> "remove", element |-> id])
               ELSE sv
          [] OTHER -> sv)

\* changeEvents.map(event => ({type, element: registry.get(id), data}))
EditorUpdates(sv, changeEvents) ==
    [k \in 1..Len(changeEvents) |->
        IF Registered(sv, changeEvents[k].elementId)
        THEN [type |-> changeEvents[k].type, element |-> changeEvents[k].elementId,
              data |-> changeEvents[k].elementData, fail |-> FALSE]
        ELSE [type |-> changeEvents[k].type, data |-> changeEvents[k].elementData,
              fail |-> FALSE]]

ApplySilentBatchUpdatesOn(sv, changeEvents) ==
    Caught(ExecuteBatchUpdatesSilentlyOn(sv, EditorUpdates(sv, changeEvents)))

\* applySilentUpdate on each event of the list, in order
RECURSIVE ApplyEachOn(_, _)
ApplyEachOn(sv, changeEvents) ==
    IF changeEvents = <<>> THEN sv
    ELSE ApplyEachOn(ApplySilentUpdateOn(sv, Head(changeEvents)), Tail(changeEvents))

\* ========================================================================
\* Calls on the service (the actions of the mutation layer)
\* ========================================================================
MaxBatch == 3                 \* longest operation list given to a batch

TaskData(id) == [id |-> id, type |-> "bpmn:Task"]
FlowData(id) == [id |-> id, type |-> "bpmn:SequenceFlow"]
NameN == [name |-> "N"]
MoveTo == [x |-> 10, y |-> 20]

\* the operations a batch is drawn from
BatchOps ==
    { [type |-> "create", data |-> TaskData("a"), fail |-> FALSE],
      [type |-> "create", fail |-> FALSE,
       data |-> [connectionData |-> FlowData("c1"), sourceId |-> "a", targetId |-> "a"]],
      [type |-> "business", elementId |-> "a", data |-> NameN, fail |-> FALSE],
      [type |-> "business", data |-> NameN, fail |-> TRUE],
      [type |-> "visual", elementId |-> "a", data |-> MoveTo, fail |-> TRUE],
      [type |-> "remove", elementId |-> "a", fail |-> FALSE] }

\* operation lists without repetition, up to n long
DistinctSeqs(S, n) ==
    {q \in SeqsUpTo(S, n) : \A j, k \in 1..Len(q) : j # k => q[j] # q[k]}

Batches == DistinctSeqs(BatchOps, MaxBatch)

ModelingUpdates ==
    { [type |-> "update", element |-> "a", data |-> NameN, fail |-> FALSE],
      [type |-> "update", data |-> NameN, fail |-> FALSE],
      [type |-> "move", element |-> "a", data |-> [x |-> 10, y |-> 20], fail |-> TRUE],
      [type |-> "create", fail |-> FALSE,
       data |-> [elementData |-> [type |-> "bpmn:Task"],
                 position |-> [x |-> 0, y |-> 0]]],
      [type |-> "remove", element |-> "a", fail |-> FALSE] }

MaxModelingBatch == 2

SvcState ==
    [els |-> elements, susp |-> suspended, redraws |-> 0, log |-> <<>>,
     painted |-> <<>>, threw |-> FALSE, failNext |-> FALSE, ret |-> "void"]

\* large = [active, chunks, n, chunkSize, processed, log]: the chunks still to
\* run; the call's arguments (list length and chunk size); the number of
\* chunks handed to batchUpdateOptimized; the mutation-layer calls made so far
\* looping, updates, i: the chunking loop is running over updates at index i
NoLarge == [active |-> FALSE, chunks |-> <<>>, n |-> 0, chunkSize |-> 0,
            processed |-> 0, log |-> <<>>, looping |-> FALSE, updates |-> <<>>,
            i |-> 0]

\* the mutation-layer calls of one chunk, added to those of the earlier chunks
Ops(log) == [k \in 1..Len(log) |-> log[k].op]

\* nothing recorded: the observer's record of calls is clear
NoCall == [op |-> "none"]

SvcInit ==
    /\ elements = [i \in {} |-> Null]
    /\ suspended = FALSE
    /\ applied = <<>>
    /\ svcCall = NoCall
    /\ large = NoLarge

MaxCoord == 10                \* largest x coordinate explored

WithinBounds(els) ==
    \A i \in DOMAIN els :
        /\ Len(els[i].incoming) <= MaxAdj
        /\ Len(els[i].outgoing) <= MaxAdj
        /\ Has(els[i].geom, "x") => els[i].geom.x <= MaxCoord

\* the call's outcome becomes the editor's state; what the caller saw is kept
SvcReturn(op, updates, r) ==
    /\ svcCall = NoCall
    /\ WithinBounds(r.els)
    /\ elements' = r.els
    /\ suspended' = r.susp
    /\ applied' = r.log
    /\ svcCall' = [op |-> op, entrySuspended |-> suspended, threw |-> r.threw,
                   redraws |-> r.redraws, ret |-> r.ret, updates |-> updates,
                   gone |-> (DOMAIN elements) \ (DOMAIN r.els),
                   painted |-> r.painted]
    /\ UNCHANGED <<stackVars, medVars, serverVars>>

Armed(fail) == [SvcState EXCEPT !.failNext = fail]

CallUpdateBusinessObjectDirectly(id, fail) ==
    /\ SvcReturn("updateBusinessObjectDirectly", <<>>,
                 UpdateBusinessObjectDirectly(Armed(fail), id, NameN))
    /\ UNCHANGED large

CallUpdateVisualPropertiesDirectly(id, fail) ==
    /\ SvcReturn("updateVisualPropertiesDirectly", <<>>,
                 UpdateVisualPropertiesDirectly(Armed(fail), id, MoveTo))
    /\ UNCHANGED large

CallAddElementSilently(id, fail) ==
    /\ SvcReturn("addElementSilently", <<>>, AddElementSilently(Armed(fail), TaskData(id)))
    /\ UNCHANGED large

CallAddConnectionSilently(id, sourceId, targetId, fail) ==
    /\ SvcReturn("addConnectionSilently", <<>>,
                 AddConnectionSilently(Armed(fail), FlowData(id), sourceId, targetId))
    /\ UNCHANGED large

CallRemoveElementSilently(id, fail) ==
    /\ SvcReturn("removeElementSilently",
                 <<[type |-> "remove", elementId |-> id, fail |-> fail]>>,
                 RemoveElementSilently(Armed(fail), id))
    /\ UNCHANGED large

CallSetBusinessObjectParent(elementId, parentElementId) ==
    /\ SvcReturn("setBusinessObjectParent",
                 <<[type |-> "parent", elementId |-> elementId,
                    parentElementId |-> parentElementId, fail |-> FALSE]>>,
                 SetBusinessObjectParent(SvcState, elementId, parentElementId))
    /\ UNCHANGED large

PropertyPaths == {<<"name">>, <<"documentation", "text">>}

CallSetBusinessObjectProperty(id, pathParts, fail) ==
    /\ SvcReturn("setBusinessObjectProperty", <<>>,
                 SetBusinessObjectProperty(Armed(fail), id, pathParts, "N"))
    /\ UNCHANGED large

CallRefreshElementGraphics(id, fail) ==
    /\ SvcReturn("refreshElementGraphics", <<>>,
                 RefreshElementGraphics(Armed(fail), id))
    /\ UNCHANGED large

SuspendRendering ==
    /\ SvcReturn("suspendRendering", <<>>, SuspendRenderingOn(SvcState))
    /\ UNCHANGED large

ResumeRendering ==
    /\ SvcReturn("resumeRendering", <<>>, ResumeRenderingOn(SvcState))
    /\ UNCHANGED large

BatchUpdate(updates) ==
    /\ SvcReturn("batchUpdate", updates, BatchUpdateOn(SvcState, updates))
    /\ UNCHANGED large

BatchUpdateOptimized(updates) ==
    /\ SvcReturn("batchUpdateOptimized", updates,
                 BatchUpdateOptimizedOn(SvcState, updates))
    /\ UNCHANGED large

\* batchUpdateLarge runs its first chunk at once and then waits on a timer
BatchUpdateLarge(updates, chunkSize) ==
    /\ ~large.active
    /\ IF Len(updates) = 0
       THEN /\ SvcReturn("batchUpdateLarge.done", <<>>, SvcState)
            /\ UNCHANGED large
       ELSE LET chunks == Chunks(updates, chunkSize)
                r == BatchUpdateOptimizedOn(SvcState, Head(chunks))
            IN /\ SvcReturn("batchUpdateLarge.chunk", Head(chunks), r)
               /\ large' = IF r.threw THEN NoLarge
                           ELSE [NoLarge EXCEPT
                                    !.active = TRUE, !.chunks = Tail(chunks),
                                    !.n = Len(updates), !.chunkSize = chunkSize,
                                    !.processed = 1, !.log = Ops(r.log)]

\* the 1 ms timer between chunks fires: the next chunk, or the end of the loop
BatchUpdateLargeResume ==
    /\ large.active
    /\ IF large.chunks = <<>>
       THEN /\ SvcReturn("batchUpdateLarge.done", <<>>, SvcState)
            /\ large' = NoLarge
       ELSE LET r == BatchUpdateOptimizedOn(SvcState, Head(large.chunks))
            IN /\ SvcReturn("batchUpdateLarge.chunk", Head(large.chunks), r)
               /\ large' = IF r.threw THEN NoLarge
                           ELSE [large EXCEPT !.chunks = Tail(@),
                                              !.processed = @ + 1,
                                              !.log = @ \o Ops(r.log)]

MaxChunks == 4                \* chunks the model keeps of a chunk list
MinIndex == 0 - MaxChunks     \* lowest loop index the model tells apart

\* Array.prototype.slice(start, end): a negative index counts from the end
SliceIndex(len, k) ==
    IF k < 0 THEN (IF len + k < 0 THEN 0 ELSE len + k)
    ELSE IF k > len THEN len ELSE k

Slice(list, start, end) ==
    SubSeq(list, SliceIndex(Len(list), start) + 1, SliceIndex(Len(list), end))

\* the chunk sizes a caller can pass, among them 0 and a negative number
AnyChunkSizes == {-1, 0, 1, 2}

\* batchUpdateLarge step by step.  The call: an empty list returns at once,
\* otherwise for (let i = 0; ...) starts
LargeCall(updates, chunkSize) ==
    /\ ~large.active /\ ~large.looping
    /\ IF Len(updates) = 0
       THEN /\ SvcReturn("batchUpdateLarge.done", <<>>, SvcState)
            /\ UNCHANGED large
       ELSE /\ large' = [NoLarge EXCEPT !.looping = TRUE, !.updates = updates,
                                        !.n = Len(updates), !.chunkSize = chunkSize]
            /\ UNCHANGED <<elements, suspended, applied, svcCall, stackVars,
                           medVars, serverVars>>

\* one turn of the loop: i < updates.length, chunks.push(slice), i += chunkSize
\* (of a list longer than MaxChunks only the first chunks are kept, and an
\* index below MinIndex is kept as MinIndex)
LargeLoop ==
    /\ large.looping
    /\ large.i < Len(large.updates)
    /\ large' = [large EXCEPT
           !.chunks = IF Len(@) < MaxChunks
                      THEN Append(@, Slice(large.updates, large.i,
                                           large.i + large.chunkSize))
                      ELSE @,
           !.i = IF @ + large.chunkSize < MinIndex THEN MinIndex
                 ELSE @ + large.chunkSize]
    /\ UNCHANGED <<elements, suspended, applied, svcCall, stackVars, medVars,
                   serverVars>>

\* the loop is over: the first chunk goes to batchUpdateOptimized, the rest
\* wait for the timer
LargeLoopExit ==
    /\ large.looping
    /\ large.i >= Len(large.updates)
    /\ LET r == BatchUpdateOptimizedOn(SvcState, Head(large.chunks))
       IN /\ SvcReturn("batchUpdateLarge.chunk", Head(large.chunks), r)
          /\ large' = IF r.threw THEN NoLarge
                      ELSE [large EXCEPT !.looping = FALSE, !.active = TRUE,
                                         !.chunks = Tail(@), !.processed = 1,
                                         !.log = Ops(r.log)]

\* the caller looks the elements up before the batch: an element is given
\* only when its id is registered
Resolvable(updates) ==
    \A k \in 1..Len(updates) :
        Has(updates[k], "element") => updates[k].element \in DOMAIN elements

ExecuteBatchUpdatesSilently(updates) ==
    /\ Resolvable(updates)
    /\ SvcReturn("executeBatchUpdatesSilently", updates,
                 ExecuteBatchUpdatesSilentlyOn(SvcState, updates))
    /\ UNCHANGED large

\* the change events the editor is given by the collaboration layer
ChangeEvents ==
    { [type |-> "update", elementId |-> "a",
       elementData |-> [businessObject |-> NameN]],
      [type |-> "move", elementId |-> "a", elementData |-> [x |-> 10, y |-> 20]],
      [type |-> "create", elementId |-> "b",
       elementData |-> [type |-> "bpmn:Task", x |-> 10, y |-> 20]],
      [type |-> "delete", elementId |-> "a", elementData |-> NoProps] }

ApplySilentUpdate(changeEvent) ==
    /\ SvcReturn("applySilentUpdate", <<>>, ApplySilentUpdateOn(SvcState, changeEvent))
    /\ UNCHANGED large

ApplySilentBatchUpdates(changeEvents) ==
    /\ SvcReturn("applySilentBatchUpdates", <<>>,
                 ApplySilentBatchUpdatesOn(SvcState, changeEvents))
    /\ UNCHANGED large

\* the observer reads its record of the last call and clears it (the
\* harness's jest.clearAllMocks between calls); the program state stays
ClearRecordedCalls ==
    /\ svcCall # NoCall \/ medCall # [op |-> "none"] \/ serverCall # [op |-> "none"]
    /\ svcCall' = NoCall
    /\ medCall' = [op |-> "none"]
    /\ serverCall' = [op |-> "none"]
    /\ applied' = <<>>
    /\ delivered' = {}
    /\ UNCHANGED <<elements, suspended, large, stackVars, medData, sessions,
                   serverClock, sockets, presence, inflight>>

ChunkSizes == {1, 2}

\* the operation lists given to batchUpdateLarge
LargeBatches ==
    { <<>>,
      <<[type |-> "remove", elementId |-> "a", fail |-> FALSE],
        [type |-> "create", data |-> TaskData("a"), fail |-> FALSE],
        [type |-> "visual", elementId |-> "a", data |-> MoveTo, fail |-> FALSE]>>,
      <<[type |-> "create", data |-> TaskData("a"), fail |-> FALSE],
        [type |-> "business", elementId |-> "a", data |-> NameN, fail |-> TRUE],
        [type |-> "remove", elementId |-> "a", fail |-> FALSE]>> }

\* the batch executor and the render gate
BatchNext ==
    \/ SuspendRendering
    \/ ResumeRendering
    \/ \E updates \in Batches : BatchUpdate(updates)
    \/ \E updates \in Batches : BatchUpdateOptimized(updates)
    \/ \E updates \in LargeBatches, chunkSize \in ChunkSizes :
           BatchUpdateLarge(updates, chunkSize)
    \/ BatchUpdateLargeResume
    \/ \E updates \in SeqsUpTo(ModelingUpdates, MaxModelingBatch) :
           ExecuteBatchUpdatesSilently(updates)
    \/ ClearRecordedCalls

\* the batch of the worked example: a -> b joined by c1, then a removed
GraphBatches ==
    { <<[type |-> "create", data |-> TaskData("a"), fail |-> FALSE],
        [type |-> "create", data |-> TaskData("b"), fail |-> FALSE],
        [type |-> "create", fail |-> FALSE,
         data |-> [connectionData |-> FlowData("c1"), sourceId |-> "a", targetId |-> "b"]],
        [type |-> "remove", elementId |-> "a", fail |-> FALSE]>> }

\* the mutation layer called operation by operation, and through a batch
GraphNext ==
    \/ \E id \in ShapeIds, fail \in BOOLEAN : CallAddElementSilently(id, fail)
    \/ \E id \in ConnectionIds, sourceId \in ShapeIds, targetId \in ShapeIds,
          fail \in BOOLEAN :
           CallAddConnectionSilently(id, sourceId, targetId, fail)
    \/ \E id \in Ids, fail \in BOOLEAN : CallRemoveElementSilently(id, fail)
    \/ \E id \in ShapeIds, fail \in BOOLEAN : CallUpdateBusinessObjectDirectly(id, fail)
    \/ \E id \in ShapeIds, fail \in BOOLEAN : CallUpdateVisualPropertiesDirectly(id, fail)
    \/ \E updates \in GraphBatches : BatchUpdate(updates)
    \/ ClearRecordedCalls

\* remote batches of one 'create', for a shape id and for a connection's id
CreateChanges(t) ==
    { <<[type |-> "create", elementId |-> i, elementData |-> TaskData(i),
         timestamp |-> t, fail |-> FALSE]>> : i \in Ids }

\* the business-object tree: elements come and go, parents are set
ParentNext ==
    \/ \E id \in Ids, fail \in BOOLEAN : CallAddElementSilently(id, fail)
    \/ \E id \in Ids, fail \in BOOLEAN : CallRemoveElementSilently(id, fail)
    \/ \E elementId \in Ids, parentElementId \in Ids :
           CallSetBusinessObjectParent(elementId, parentElementId)
    \/ ClearRecordedCalls

\* the ids the property, geometry and refresh calls are addressed to
Addressed == {"b", "c1"}

\* every silent mutation, addressed to ids that are registered and to ids
\* that are not
NotFoundNext ==
    \/ \E id \in ShapeIds : CallAddElementSilently(id, FALSE)
    \/ \E id \in ConnectionIds, fail \in BOOLEAN :
           CallAddConnectionSilently(id, "a", "b", fail)
    \/ \E id \in Ids, fail \in BOOLEAN : CallRemoveElementSilently(id, fail)
    \/ \E id \in Addressed, fail \in BOOLEAN :
           CallUpdateBusinessObjectDirectly(id, fail)
    \/ \E id \in Addressed, pathParts \in PropertyPaths, fail \in BOOLEAN :
           CallSetBusinessObjectProperty(id, pathParts, fail)
    \/ \E elementId \in Addressed : CallSetBusinessObjectParent(elementId, "a")
    \/ \E id \in Addressed, fail \in BOOLEAN :
           CallUpdateVisualPropertiesDirectly(id, fail)
    \/ \E id \in Addressed, fail \in BOOLEAN : CallRefreshElementGraphics(id, fail)
    \/ ClearRecordedCalls

\* the editor's two ways in, on a registry that other calls have filled
EditorNext ==
    \/ \E id \in ShapeIds : CallAddElementSilently(id, FALSE)
    \/ \E changeEvent \in ChangeEvents : ApplySilentUpdate(changeEvent)
    \/ \E changeEvents \in SeqsUpTo(ChangeEvents, MaxModelingBatch) :
           ApplySilentBatchUpdates(changeEvents)
    \/ ClearRecordedCalls

\* lists of shape creates with distinct ids, as long as the ids allow
CreateBatches ==
    { <<[type |-> "create", data |-> TaskData("a"), fail |-> FALSE],
        [type |-> "create", data |-> TaskData("b"), fail |-> FALSE]>>,
      <<[type |-> "create", data |-> TaskData("a"), fail |-> FALSE],
        [type |-> "create", data |-> TaskData("b"), fail |-> FALSE],
        [type |-> "create", data |-> TaskData("c1"), fail |-> FALSE]>> }

\* batchUpdateLarge with its chunking loop, for every chunk size
ChunkingNext ==
    \/ \E updates \in CreateBatches \cup {<<>>}, chunkSize \in AnyChunkSizes :
           LargeCall(updates, chunkSize)
    \/ LargeLoop
    \/ LargeLoopExit
    \/ BatchUpdateLargeResume
    \/ ClearRecordedCalls

\* batchUpdateLarge on its own: its chunks, the timer between them, and the
\* render gate in the hands of other callers
LargeNext ==
    \/ \E updates \in LargeBatches \cup CreateBatches, chunkSize \in ChunkSizes :
           BatchUpdateLarge(updates, chunkSize)
    \/ BatchUpdateLargeResume
    \/ SuspendRendering
    \/ ResumeRendering
    \/ ClearRecordedCalls

\* ========================================================================
\* CollaborationEventManager (event mediator)
\* ========================================================================
EVENT_SOURCE_TTL == 5000
DEBOUNCE_DELAY == 100
DUPLICATE_WINDOW == 50
NoTimer == -1                 \* debounceTimer is null
NoBurst == [n |-> 0]
NoMedCall == [op |-> "none"]

MaxTicks == 2                 \* clock advances in a run
MaxChangeCount == 2           \* local changes tracked per element
MaxOutbound == 1              \* onLocalChange invocations in a run
MaxRemoteBatch == 2           \* longest free-form list given to applyRemoteChanges

MedInit ==
    /\ isProcessingRemoteEvent = FALSE
    /\ remoteEventSources = {}
    /\ eventSourceHistory = [i \in {} |-> Null]
    /\ changeTracker = [i \in {} |-> Null]
    /\ changeBuffer = <<>>
    /\ debounceTimer = NoTimer
    /\ markTimers = {}
    /\ sweepAt = EVENT_SOURCE_TTL
    /\ onLocalChangeCallback = FALSE
    /\ onRemoteChangeCallback = "none"
    /\ outbound = <<>>
    /\ now = 0
    /\ ticks = 0
    /\ remoteApplied = [i \in {} |-> Null]
    /\ burst = [i \in ShapeIds |-> NoBurst]
    /\ medCall = NoMedCall

\* A mediator state during a call or a listener:
\*   md = [processing, marks, timers, history, tracker, buffer, debounce,
\*         out, ignore, threw, notified, seen, nested]
\*   out: what onLocalChange has been given; notified: what onRemoteChange
\*   was given in this call; ignore: the verdict of shouldIgnoreEvent;
\*   seen: the changes this listener took as local (trackLocalChange);
\*   nested: the local events observed while the call ran, each with the
\*   flag's value and the verdict of shouldIgnoreEvent.
MedState ==
    [processing |-> isProcessingRemoteEvent, marks |-> remoteEventSources,
     timers |-> markTimers, history |-> eventSourceHistory,
     tracker |-> changeTracker, buffer |-> changeBuffer,
     debounce |-> debounceTimer, out |-> outbound, ignore |-> FALSE,
     threw |-> FALSE, notified |-> <<>>, seen |-> <<>>, nested |-> <<>>]

\* Map.set on a map from element id to a value
MapSet(map, key, value) ==
    [k \in (DOMAIN map) \cup {key} |-> IF k = key THEN value ELSE map[k]]

MapDelete(map, keys) == [k \in (DOMAIN map) \ keys |-> map[k]]

IsRecentRemoteEvent(md, elementId, t) ==
    /\ elementId \in DOMAIN md.history
    /\ LET sourceInfo == md.history[elementId]
       IN /\ t - sourceInfo.timestamp < EVENT_SOURCE_TTL
          /\ sourceInfo.source = "remote"
          /\ ~sourceInfo.processed

\* a guard that ignores a marked event and leaves the mark in place
ShouldIgnoreEvent_KeepsMark(md, event, t) ==
    IF md.processing THEN [md EXCEPT !.ignore = TRUE]
    ELSE IF Has(event, "element") /\ event.element.id \in md.marks
         THEN [md EXCEPT !.ignore = TRUE]
    ELSE IF Has(event, "element") /\ IsRecentRemoteEvent(md, event.element.id, t)
         THEN [md EXCEPT !.ignore = TRUE]
    ELSE [md EXCEPT !.ignore = FALSE]

ShouldIgnoreEvent(md, event, t) ==
    IF md.processing THEN [md EXCEPT !.ignore = TRUE]
    ELSE IF Has(event, "element") /\ event.element.id \in md.marks
         THEN [md EXCEPT !.marks = @ \ {event.element.id}, !.ignore = TRUE]
    ELSE IF Has(event, "element") /\ IsRecentRemoteEvent(md, event.element.id, t)
         THEN [md EXCEPT !.ignore = TRUE]
    ELSE [md EXCEPT !.ignore = FALSE]

ExtractElementProperties(element) ==
    IF Has(element, "name") THEN [name |-> element.name] ELSE NoProps

ExtractElementData(element) ==
    [id |-> element.id, type |-> element.type,
     x |-> NumberOr(element, "x", 0), y |-> NumberOr(element, "y", 0),
     width |-> NumberOr(element, "width", DefaultWidth),
     height |-> NumberOr(element, "height", DefaultHeight),
     properties |-> ExtractElementProperties(element)]

TrackLocalChange(md, change) ==
    LET count == IF change.elementId \in DOMAIN md.tracker
                 THEN md.tracker[change.elementId].changeCount ELSE 0
    IN [md EXCEPT
           !.tracker = MapSet(@, change.elementId,
                              [lastChange |-> change, changeCount |-> count + 1,
                               lastTimestamp |-> change.timestamp]),
           !.history = MapSet(@, change.elementId,
                              [timestamp |-> change.timestamp, source |-> "local",
                               processed |-> FALSE]),
           !.seen = Append(@, change)]

IsDuplicateChange(md, change) ==
    /\ change.elementId \in DOMAIN md.tracker
    /\ LET trackingInfo == md.tracker[change.elementId]
       IN /\ trackingInfo.lastChange.type = change.type
          /\ change.timestamp - trackingInfo.lastTimestamp < DUPLICATE_WINDOW

\* changeBuffer.set: a buffered change of the same id is replaced in place
BufferSet(buffer, change) ==
    IF \E k \in 1..Len(buffer) : buffer[k].elementId = change.elementId
    THEN [k \in 1..Len(buffer) |->
             IF buffer[k].elementId = change.elementId THEN change ELSE buffer[k]]
    ELSE Append(buffer, change)

DebounceLocalChange(md, change, t) ==
    IF IsDuplicateChange(md, change) THEN md
    ELSE [md EXCEPT !.buffer = BufferSet(@, change),
                    !.debounce = t + DEBOUNCE_DELAY]

BroadcastLocalChange(md, change) ==
    IF onLocalChangeCallback THEN [md EXCEPT !.out = Append(@, change)] ELSE md

RECURSIVE BroadcastLocalChanges(_, _)
BroadcastLocalChanges(md, changes) ==
    IF changes = <<>> THEN md
    ELSE BroadcastLocalChanges(BroadcastLocalChange(md, Head(changes)), Tail(changes))

FlushChangeBuffer(md) ==
    BroadcastLocalChanges([md EXCEPT !.buffer = <<>>, !.debounce = NoTimer],
                          md.buffer)

HandleElementChanged(md, event, t) ==
    IF ~Has(event, "element") THEN md
    ELSE LET changeEvent == [type |-> "property", elementId |-> event.element.id,
                             elementType |-> event.element.type,
                             properties |-> ExtractElementProperties(event.element),
                             timestamp |-> t]
         IN DebounceLocalChange(TrackLocalChange(md, changeEvent), changeEvent, t)

HandleElementMoved(md, event, t) ==
    IF ~Has(event, "element") THEN md
    ELSE LET changeEvent == [type |-> "position", elementId |-> event.element.id,
                             elementType |-> event.element.type,
                             x |-> event.element.x, timestamp |-> t]
         IN DebounceLocalChange(TrackLocalChange(md, changeEvent), changeEvent, t)

\* (mutant) a created element takes the debounced path
HandleElementAdded_Debounced(md, event, t) ==
    IF ~Has(event, "element") THEN md
    ELSE LET changeEvent == [type |-> "create", elementId |-> event.element.id,
                             elementType |-> event.element.type,
                             elementData |-> ExtractElementData(event.element),
                             timestamp |-> t]
         IN DebounceLocalChange(TrackLocalChange(md, changeEvent), changeEvent, t)

HandleElementAdded(md, event, t) ==
    IF ~Has(event, "element") THEN md
    ELSE LET changeEvent == [type |-> "create", elementId |-> event.element.id,
                             elementType |-> event.element.type,
                             elementData |-> ExtractElementData(event.element),
                             timestamp |-> t]
         IN BroadcastLocalChange(TrackLocalChange(md, changeEvent), changeEvent)

HandleElementRemoved(md, event, t) ==
    IF ~Has(event, "element") THEN md
    ELSE LET changeEvent == [type |-> "remove", elementId |-> event.element.id,
                             elementType |-> event.element.type, timestamp |-> t]
         IN BroadcastLocalChange(TrackLocalChange(md, changeEvent), changeEvent)

ExtractCommandStackChanges(event, t) ==
    IF ~Has(event, "command") \/ ~Has(event, "context") THEN <<>>
    ELSE (IF event.command = "element.updateProperties" /\ Has(event.context, "element")
          THEN <<[type |-> "property", elementId |-> event.context.element.id,
                  elementType |-> event.context.element.type,
                  properties |-> ObjectOr(event.context, "properties", NoProps),
                  timestamp |-> t]>>
          ELSE <<>>)
         \o (IF event.command = "elements.move" /\ Has(event.context, "shapes")
             THEN [k \in 1..Len(event.context.shapes) |->
                      [type |-> "position", elementId |-> event.context.shapes[k].id,
                       elementType |-> event.context.shapes[k].type,
                       x |-> event.context.shapes[k].x, timestamp |-> t]]
             ELSE <<>>)

RECURSIVE TrackAndDebounce(_, _, _)
TrackAndDebounce(md, changes, t) ==
    IF changes = <<>> THEN md
    ELSE TrackAndDebounce(
             DebounceLocalChange(TrackLocalChange(md, Head(changes)), Head(changes), t),
             Tail(changes), t)

HandleCommandStackChanged(md, event, t) ==
    TrackAndDebounce(md, ExtractCommandStackChanges(event, t), t)

\* ---- remote changes ----
\* the x, y, width, height a position change carries
VisualProps(change) ==
    [k \in {"x", "y", "width", "height"} \cap DOMAIN change |-> change[k]]

\* the body of the four processRemote... loops, for one change
ProcessRemote(sv, change, idx) ==
    CASE change.type = "create" ->
           IF Has(change, "elementData")
           THEN AddElementSilently(
                    Logged(sv, "addElementSilently",
                           ObjectOr(change.elementData, "id", FactoryId), idx),
                    change.elementData)
           ELSE sv
      [] change.type = "property" ->
           IF Has(change, "properties")
           THEN UpdateBusinessObjectDirectly(
                    Logged(sv, "updateBusinessObjectDirectly", change.elementId, idx),
                    change.elementId, change.properties)
           ELSE sv
      [] change.type = "position" ->
           IF DOMAIN VisualProps(change) # {}
           THEN UpdateVisualPropertiesDirectly(
                    Logged(sv, "updateVisualPropertiesDirectly", change.elementId, idx),
                    change.elementId, VisualProps(change))
           ELSE sv
      [] change.type = "remove" ->
           RemoveElementSilently(
               Logged(sv, "removeElementSilently", change.elementId, idx),
               change.elementId)

RECURSIVE ForEachRemote(_, _)
ForEachRemote(sv, items) ==
    IF items = <<>> \/ sv.threw THEN sv
    ELSE LET armed == [sv EXCEPT !.failNext = Head(items).op.fail]
             r == ProcessRemote(armed, Head(items).op, Head(items).idx)
         IN ForEachRemote([r EXCEPT !.failNext = FALSE], Tail(items))

\* (mutant) the changes are processed in the order they came in
GroupChangesByType_AsGiven(items) ==
    FilterSeq(items, {it \in Range(items) :
                         it.op.type \in {"create", "property", "position", "remove"}})

\* groupChangesByType, read in the order applyRemoteChanges takes the groups
GroupChangesByType(items) ==
    OfType(items, "create") \o OfType(items, "property")
        \o OfType(items, "position") \o OfType(items, "remove")

MarkAsRemoteEvent(md, elementId, t) ==
    [md EXCEPT !.marks = @ \cup {elementId},
               !.timers = @ \cup {[id |-> elementId, due |-> t + EVENT_SOURCE_TTL]}]

\* (mutant) the remote entry is written as not yet processed
TrackRemoteChange_Unprocessed(md, change) ==
    LET tracked == [md EXCEPT !.history =
                        MapSet(@, change.elementId,
                               [timestamp |-> change.timestamp, source |-> "remote",
                                processed |-> FALSE])]
    IN CASE onRemoteChangeCallback = "none" -> tracked
         [] onRemoteChangeCallback = "throws" -> [tracked EXCEPT !.threw = TRUE]
         [] OTHER -> [tracked EXCEPT !.notified = Append(@, change.elementId)]

TrackRemoteChange(md, change) ==
    LET tracked == [md EXCEPT !.history =
                        MapSet(@, change.elementId,
                               [timestamp |-> change.timestamp, source |-> "remote",
                                processed |-> TRUE])]
    IN CASE onRemoteChangeCallback = "none" -> tracked
         [] onRemoteChangeCallback = "throws" -> [tracked EXCEPT !.threw = TRUE]
         [] OTHER -> [tracked EXCEPT !.notified = Append(@, change.elementId)]

\* an onRemoteChange callback that makes the editor emit shape.added for the
\* element of the change: the mediator's listener runs inside the call
CallbackEmits(md, change, t) ==
    LET event == [element |-> [id |-> change.elementId, type |-> "bpmn:Task"]]
        guard == ShouldIgnoreEvent(md, event, t)
        handled == IF guard.ignore THEN guard ELSE HandleElementAdded(guard, event, t)
    IN [handled EXCEPT !.nested = Append(@, [processing |-> md.processing,
                                             ignored |-> guard.ignore,
                                             consumed |-> md.marks \ guard.marks])]

\* changes.forEach(change => { markAsRemoteEvent; trackRemoteChange })
RECURSIVE MarkAndTrack(_, _, _)
MarkAndTrack(md, changes, t) ==
    IF changes = <<>> \/ md.threw THEN md
    ELSE LET tracked == TrackRemoteChange(
                            MarkAsRemoteEvent(md, Head(changes).elementId, t),
                            Head(changes))
         IN MarkAndTrack(IF onRemoteChangeCallback = "emits"
                         THEN CallbackEmits(tracked, Head(changes), t)
                         ELSE tracked,
                         Tail(changes), t)

\* the mutation-layer part of applyRemoteChanges
ApplyRemoteOn(sv, changes) ==
    IF Len(changes) = 0 THEN sv
    ELSE ResumeRenderingOn(
             ForEachRemote(SuspendRenderingOn(sv),
                           GroupChangesByType(Indexed(changes))))

\* (mutant) the flag is switched off after the work, outside any finally
ApplyRemoteChangesOn_NoFinally(md, sv, changes, t) ==
    IF Len(changes) = 0 THEN md
    ELSE LET processing == [md EXCEPT !.processing = TRUE]
             r == IF sv.threw THEN [processing EXCEPT !.threw = TRUE]
                  ELSE MarkAndTrack(processing, changes, t)
         IN IF r.threw THEN r ELSE [r EXCEPT !.processing = FALSE]

\* the mediator part: flag, marks and history; sv is the mutation layer's outcome
ApplyRemoteChangesOn(md, sv, changes, t) ==
    IF Len(changes) = 0 THEN md
    ELSE LET processing == [md EXCEPT !.processing = TRUE]
             r == IF sv.threw THEN [processing EXCEPT !.threw = TRUE]
                  ELSE MarkAndTrack(processing, changes, t)
         IN [r EXCEPT !.processing = FALSE]

CleanupExpiredEvents(md, t) ==
    [md EXCEPT
       !.history = MapDelete(@, {i \in DOMAIN @ :
                                    t - @[i].timestamp > EVENT_SOURCE_TTL}),
       !.tracker = MapDelete(@, {i \in DOMAIN @ :
                                    t - @[i].lastTimestamp > EVENT_SOURCE_TTL * 2})]

CleanupOn(md) ==
    [md EXCEPT !.debounce = NoTimer, !.buffer = <<>>, !.marks = {},
               !.history = [i \in {} |-> Null], !.tracker = [i \in {} |-> Null]]

\* ---- the mediator's listeners, calls and timers ----
Xs == {10, 20}

LocalElement(id, x) == [id |-> id, type |-> "bpmn:Task", name |-> "N", x |-> x]

EmptyEvent == [k \in {} |-> Null]

\* events of element.changed, shape/connection.added and .removed
ElementEvents == {[element |-> LocalElement("a", 10)], EmptyEvent}

\* events of shape/connection.moved
MovedEvents == {[element |-> LocalElement("a", x)] : x \in Xs}

CommandStackEvents ==
    { [command |-> "element.updateProperties",
       context |-> [element |-> LocalElement("a", 10), properties |-> NameN]],
      [command |-> "elements.move",
       context |-> [shapes |-> <<LocalElement("a", 10)>>]],
      [command |-> "shape.create", context |-> [shape |-> LocalElement("a", 10)]],
      EmptyEvent }

\* the changes a remote batch is drawn from, arriving at time t
RemoteChanges(t) ==
    { [type |-> "create", elementId |-> "a", elementData |-> TaskData("a"),
       timestamp |-> t, fail |-> FALSE],
      [type |-> "property", elementId |-> "a", properties |-> NameN,
       timestamp |-> t, fail |-> FALSE],
      [type |-> "position", elementId |-> "a", x |-> 10, timestamp |-> t, fail |-> TRUE],
      [type |-> "remove", elementId |-> "a", timestamp |-> t, fail |-> FALSE],
      [type |-> "property", elementId |-> "b", properties |-> NameN,
       timestamp |-> 0, fail |-> FALSE],
      [type |-> "connection", elementId |-> "b", timestamp |-> t, fail |-> FALSE] }

\* a batch that arrives in the reverse of the order it has to be applied in
ReversedBatch(t) ==
    << [type |-> "remove", elementId |-> "a", timestamp |-> t, fail |-> FALSE],
       [type |-> "position", elementId |-> "a", x |-> 10, timestamp |-> t, fail |-> FALSE],
       [type |-> "property", elementId |-> "a", properties |-> NameN,
        timestamp |-> t, fail |-> FALSE],
       [type |-> "create", elementId |-> "a", elementData |-> TaskData("a"),
        timestamp |-> t, fail |-> FALSE] >>

RemoteBatches(t) == DistinctSeqs(RemoteChanges(t), MaxRemoteBatch) \cup {ReversedBatch(t)}

\* the remote batches that arrive while local events are being watched
EchoBatches(t) ==
    { <<>>,
      <<[type |-> "create", elementId |-> "a", elementData |-> TaskData("a"),
         timestamp |-> t, fail |-> FALSE]>>,
      <<[type |-> "remove", elementId |-> "a", timestamp |-> t, fail |-> TRUE]>> }

\* the listener's or call's outcome becomes the mediator's state
MedReturn(op, info, md) ==
    /\ medCall = NoMedCall
    /\ Len(md.out) <= MaxOutbound
    /\ \A i \in DOMAIN md.tracker : md.tracker[i].changeCount <= MaxChangeCount
    /\ isProcessingRemoteEvent' = md.processing
    /\ remoteEventSources' = md.marks
    /\ markTimers' = md.timers
    /\ eventSourceHistory' = md.history
    /\ changeTracker' = md.tracker
    /\ changeBuffer' = md.buffer
    /\ debounceTimer' = md.debounce
    /\ outbound' = md.out
    /\ medCall' = [op |-> op, threw |-> md.threw, info |-> info]

\* the last change of each id's running burst, after the listener took these
\* changes while an onLocalChange callback was registered
RECURSIVE NoteBurst(_, _, _)
NoteBurst(b, changes, via) ==
    IF changes = <<>> \/ ~onLocalChangeCallback THEN b
    ELSE LET c == Head(changes)
             cur == b[c.elementId]
             continues == /\ cur.n > 0
                          /\ cur.last.type = c.type
                          /\ c.timestamp - cur.last.timestamp < DEBOUNCE_DELAY
         IN NoteBurst([b EXCEPT ![c.elementId] =
                          [n |-> IF continues THEN cur.n + 1 ELSE 1,
                           last |-> c, via |-> via]],
                      Tail(changes), via)

\* eventBus.on(name, event => { if (shouldIgnoreEvent(event)) return; handle })
Listener(name, event, handled, debounced) ==
    /\ MedReturn(name, [event |-> event, ignored |-> handled.ignore], handled)
    /\ burst' = IF debounced THEN NoteBurst(burst, handled.seen, name) ELSE burst
    /\ UNCHANGED <<sweepAt, onLocalChangeCallback, onRemoteChangeCallback, now,
                   ticks, remoteApplied, stackVars, svcVars, serverVars>>

ElementChangedEvent(event) ==
    LET guard == ShouldIgnoreEvent(MedState, event, now)
    IN Listener("element.changed", event,
                IF guard.ignore THEN guard ELSE HandleElementChanged(guard, event, now),
                TRUE)

CommandStackChangedEvent(event) ==
    LET guard == ShouldIgnoreEvent(MedState, event, now)
    IN Listener("commandStack.changed", event,
                IF guard.ignore THEN guard
                ELSE HandleCommandStackChanged(guard, event, now),
                TRUE)

ElementAddedEvent(event) ==
    LET guard == ShouldIgnoreEvent(MedState, event, now)
    IN Listener("shape.added", event,
                IF guard.ignore THEN guard ELSE HandleElementAdded(guard, event, now),
                FALSE)

ElementRemovedEvent(event) ==
    LET guard == ShouldIgnoreEvent(MedState, event, now)
    IN Listener("shape.removed", event,
                IF guard.ignore THEN guard ELSE HandleElementRemoved(guard, event, now),
                FALSE)

ElementMovedEvent(event) ==
    LET guard == ShouldIgnoreEvent(MedState, event, now)
    IN Listener("shape.moved", event,
                IF guard.ignore THEN guard ELSE HandleElementMoved(guard, event, now),
                TRUE)

\* the changes of a batch that had an element to act on
Effective(changes, before, after) ==
    {k \in 1..Len(changes) :
        /\ changes[k].type \in {"create", "property", "position", "remove"}
        /\ changes[k].elementId \in (DOMAIN before) \cup (DOMAIN after)}

ApplyRemoteChanges(changes) ==
    LET sv == ApplyRemoteOn(SvcState, changes)
        md == ApplyRemoteChangesOn(MedState, sv, changes, now)
    IN /\ svcCall = NoCall
       /\ WithinBounds(sv.els)
       /\ MedReturn("applyRemoteChanges",
                    [changes |-> changes, notified |-> md.notified,
                     redraws |-> sv.redraws, nested |-> md.nested], md)
       /\ elements' = sv.els
       /\ suspended' = sv.susp
       /\ applied' = sv.log
       /\ remoteApplied' =
              IF md.threw THEN remoteApplied
              ELSE LET ids == {changes[k].elementId :
                                   k \in Effective(changes, elements, sv.els)}
                   IN [i \in (DOMAIN remoteApplied) \cup ids |->
                          IF i \in ids THEN now ELSE remoteApplied[i]]
       /\ UNCHANGED <<sweepAt, onLocalChangeCallback, onRemoteChangeCallback, now,
                      ticks, burst, svcCall, large, stackVars, serverVars>>

OnLocalChange ==
    /\ onLocalChangeCallback' = TRUE
    /\ UNCHANGED <<isProcessingRemoteEvent, remoteEventSources, eventSourceHistory,
                   changeTracker, changeBuffer, debounceTimer, markTimers, sweepAt,
                   onRemoteChangeCallback, outbound, now, ticks, remoteApplied,
                   burst, medCall, stackVars, svcVars, serverVars>>

\* callback: one that returns ("ok"), one that throws ("throws"), one that
\* makes the editor emit a local event before it returns ("emits")
OnRemoteChange(callback) ==
    /\ onRemoteChangeCallback' = callback
    /\ UNCHANGED <<isProcessingRemoteEvent, remoteEventSources, eventSourceHistory,
                   changeTracker, changeBuffer, debounceTimer, markTimers, sweepAt,
                   onLocalChangeCallback, outbound, now, ticks, remoteApplied,
                   burst, medCall, stackVars, svcVars, serverVars>>

Cleanup ==
    /\ MedReturn("cleanup", EmptyEvent, CleanupOn(MedState))
    /\ onLocalChangeCallback' = FALSE
    /\ onRemoteChangeCallback' = "none"
    /\ burst' = [i \in ShapeIds |-> NoBurst]
    /\ remoteApplied' = [i \in {} |-> Null]
    /\ UNCHANGED <<sweepAt, now, ticks, stackVars, svcVars, serverVars>>

\* ---- timers: setTimeout / setInterval callbacks that are due ----
DueTimers ==
    (IF debounceTimer # NoTimer /\ debounceTimer <= now
     THEN {[kind |-> "debounce", id |-> Null, due |-> debounceTimer]} ELSE {})
    \cup {[kind |-> "mark", id |-> m.id, due |-> m.due] :
             m \in {m \in markTimers : m.due <= now}}
    \cup (IF sweepAt <= now
          THEN {[kind |-> "sweep", id |-> Null, due |-> sweepAt]} ELSE {})

\* the callback of one due timer runs
RunTimer ==
    \E timer \in DueTimers :
        LET r == CASE timer.kind = "debounce" -> FlushChangeBuffer(MedState)
                   [] timer.kind = "mark" ->
                        [MedState EXCEPT
                            !.marks = @ \ {timer.id},
                            !.timers = @ \ {[id |-> timer.id, due |-> timer.due]}]
                   [] timer.kind = "sweep" -> CleanupExpiredEvents(MedState, now)
        IN /\ MedReturn("timer", [kind |-> timer.kind, id |-> timer.id], r)
           /\ sweepAt' = IF timer.kind = "sweep" THEN sweepAt + EVENT_SOURCE_TTL
                         ELSE sweepAt
           /\ UNCHANGED <<onLocalChangeCallback, onRemoteChangeCallback, now, ticks,
                          remoteApplied, burst, stackVars, svcVars, serverVars>>

Deadlines ==
    {sweepAt} \cup {m.due : m \in markTimers}
        \cup (IF debounceTimer # NoTimer THEN {debounceTimer} ELSE {})

Earliest(S) == CHOOSE d \in S : \A e \in S : d <= e

TickSteps == {100, 5000}

\* time passes, up to the next timer that is due
Tick(d) ==
    /\ ticks < MaxTicks
    /\ DueTimers = {}
    /\ now' = IF now + d <= Earliest(Deadlines) THEN now + d ELSE Earliest(Deadlines)
    /\ ticks' = ticks + 1
    /\ UNCHANGED <<isProcessingRemoteEvent, remoteEventSources, eventSourceHistory,
                   changeTracker, changeBuffer, debounceTimer, markTimers, sweepAt,
                   onLocalChangeCallback, onRemoteChangeCallback, outbound,
                   remoteApplied, burst, medCall, stackVars, svcVars, serverVars>>

\* the inbound path: remote batches, their callback, teardown
RemoteNext ==
    \/ \E callback \in {"ok", "throws", "emits"} : OnRemoteChange(callback)
    \/ \E changes \in RemoteBatches(now) : ApplyRemoteChanges(changes)
    \/ Cleanup
    \/ ClearRecordedCalls

\* the outbound path: local events, the echo guard, timers
MediatorNext ==
    \/ OnLocalChange
    \/ \E event \in ElementEvents : ElementChangedEvent(event)
    \/ \E event \in CommandStackEvents : CommandStackChangedEvent(event)
    \/ \E event \in ElementEvents : ElementAddedEvent(event)
    \/ \E event \in ElementEvents : ElementRemovedEvent(event)
    \/ \E event \in MovedEvents : ElementMovedEvent(event)
    \/ \E changes \in EchoBatches(now) : ApplyRemoteChanges(changes)
    \/ Cleanup
    \/ RunTimer
    \/ \E d \in TickSteps : Tick(d)
    \/ ClearRecordedCalls

\* remote batches whose change is stamped by the sender: at arrival, or 10 s
\* before it (a change that was long under way)
StampedBatches(t) ==
    { <<[type |-> "property", elementId |-> i, properties |-> NameN,
         timestamp |-> t - age, fail |-> FALSE]>> :
          i \in {"a", "b"}, age \in {0, 2 * EVENT_SOURCE_TTL} }

\* the history's life: remote and local entries, the sweep, the clock
ExpiryNext ==
    \/ \E changes \in StampedBatches(now) : ApplyRemoteChanges(changes)
    \/ \E event \in ElementEvents : ElementAddedEvent(event)
    \/ RunTimer
    \/ \E d \in TickSteps : Tick(d)
    \/ ClearRecordedCalls

\* creating over what is there: elements and a connection are made and named,
\* then created again, by a call or by a remote 'create'
CreateNext ==
    \/ \E id \in Ids, fail \in BOOLEAN : CallAddElementSilently(id, fail)
    \/ \E id \in ConnectionIds : CallAddConnectionSilently(id, "a", "b", FALSE)
    \/ \E id \in ShapeIds : CallUpdateBusinessObjectDirectly(id, FALSE)
    \/ \E changes \in CreateChanges(now) : ApplyRemoteChanges(changes)
    \/ ClearRecordedCalls

\* the echo guard: remote batches set marks, local events of every kind meet
\* them, inside the call (a callback that makes the editor emit) or after it
GuardNext ==
    \/ \E callback \in {"ok", "emits"} : OnRemoteChange(callback)
    \/ \E event \in ElementEvents : ElementChangedEvent(event)
    \/ \E event \in CommandStackEvents : CommandStackChangedEvent(event)
    \/ \E event \in ElementEvents : ElementAddedEvent(event)
    \/ \E event \in ElementEvents : ElementRemovedEvent(event)
    \/ \E event \in MovedEvents : ElementMovedEvent(event)
    \/ \E changes \in EchoBatches(now) : ApplyRemoteChanges(changes)
    \/ RunTimer
    \/ \E d \in TickSteps : Tick(d)
    \/ ClearRecordedCalls

\* the immediate path: created and removed elements, with the echo guard and
\* the timers at work
ImmediateNext ==
    \/ OnLocalChange
    \/ \E event \in ElementEvents : ElementAddedEvent(event)
    \/ \E event \in ElementEvents : ElementRemovedEvent(event)
    \/ \E changes \in EchoBatches(now) : ApplyRemoteChanges(changes)
    \/ RunTimer
    \/ \E d \in TickSteps : Tick(d)
    \/ ClearRecordedCalls

\* ========================================================================
\* Server: handleCollaboration (session roster) and the socket handlers
\* ========================================================================
UserIds == {"u1", "u2"}
DiagramIds == {"d1", "d2"}
SocketIds == {"s1", "s2"}

MaxSessions == 2              \* session documents ever created
MaxServerClock == 1           \* advances of the server's clock

NoSocketData == [k \in {} |-> Null]
NoSocket == [connected |-> FALSE, data |-> NoSocketData, rooms |-> {}]

\* nothing recorded about the server
NoServerCall == [op |-> "none"]

\* the presence cache with no key: user[U] is the value of user:U:socket,
\* socket[S] the value of socket:S:user
NoPresence == [user |-> [u \in {} |-> Null], socket |-> [t \in {} |-> Null]]

ServerInit ==
    /\ sessions = <<>>
    /\ serverClock = 0
    /\ sockets = [s \in SocketIds |-> NoSocket]
    /\ delivered = {}
    /\ serverCall = NoServerCall
    /\ presence = NoPresence
    /\ inflight = {}

\* CollaborationSession.findOne({diagramId, isActive: true}): the position of
\* the first such document, 0 when there is none
FindOneActive(docs, diagramId) ==
    LET hits == {k \in 1..Len(docs) :
                    docs[k].diagramId = diagramId /\ docs[k].isActive}
    IN IF hits = {} THEN 0 ELSE CHOOSE k \in hits : \A j \in hits : k <= j

\* session.participants.filter(p => p.userId !== userId)
RECURSIVE WithoutUser(_, _)
WithoutUser(participants, userId) ==
    IF participants = <<>> THEN <<>>
    ELSE IF Head(participants).userId # userId
         THEN <<Head(participants)>> \o WithoutUser(Tail(participants), userId)
         ELSE WithoutUser(Tail(participants), userId)

\* (mutant) the participant is pushed without a look for an existing entry
AddParticipantOn_AlwaysPush(docs, diagramId, userId, socketId, t) ==
    LET found == FindOneActive(docs, diagramId)
        all == IF found = 0
               THEN Append(docs, [diagramId |-> diagramId, participants |-> <<>>,
                                  isActive |-> TRUE])
               ELSE docs
        k == IF found = 0 THEN Len(all) ELSE found
    IN [all EXCEPT ![k].participants =
            Append(@, [userId |-> userId, socketId |-> socketId, joinedAt |-> t])]

\* addParticipant up to and including session.save(): the collection afterwards
AddParticipantOn(docs, diagramId, userId, socketId, t) ==
    LET found == FindOneActive(docs, diagramId)
        all == IF found = 0
               THEN Append(docs, [diagramId |-> diagramId, participants |-> <<>>,
                                  isActive |-> TRUE])
               ELSE docs
        k == IF found = 0 THEN Len(all) ELSE found
        ps == all[k].participants
        existing == {i \in 1..Len(ps) : ps[i].userId = userId}
        first == CHOOSE i \in existing : \A j \in existing : i <= j
    IN [all EXCEPT ![k].participants =
            IF existing # {}
            THEN [ps EXCEPT ![first] = [@ EXCEPT !.socketId = socketId,
                                                 !.joinedAt = t]]
            ELSE Append(ps, [userId |-> userId, socketId |-> socketId,
                             joinedAt |-> t])]

\* (mutant) the session is left active when its last participant goes
Leave_StaysActive(session, userId) ==
    [session EXCEPT !.participants = WithoutUser(@, userId)]

\* the filter and the deactivation shared by the two removals
Leave(session, userId) ==
    LET rest == WithoutUser(session.participants, userId)
    IN [session EXCEPT !.participants = rest,
                       !.isActive = IF Len(rest) = 0 THEN FALSE ELSE @]

RemoveParticipantOn(docs, diagramId, userId) ==
    LET found == FindOneActive(docs, diagramId)
    IN IF found = 0 THEN docs
       ELSE [docs EXCEPT ![found] = Leave(@, userId)]

\* CollaborationSession.find({'participants.userId': userId, isActive: true})
FindActiveOf(docs, userId) ==
    {k \in 1..Len(docs) :
        /\ docs[k].isActive
        /\ \E i \in 1..Len(docs[k].participants) :
               docs[k].participants[i].userId = userId}

\* for (const session of sessions) { filter; deactivate; await session.save() }
\* saves: how many of the saves succeed before one is rejected
RemoveParticipantFromAllSessionsOn(docs, userId, saves) ==
    LET found == FindActiveOf(docs, userId)
        saved == {k \in found : Cardinality({j \in found : j <= k}) <= saves}
    IN [k \in 1..Len(docs) |-> IF k \in saved THEN Leave(docs[k], userId) ELSE docs[k]]

\* ---- calls on handleCollaboration ----
AddParticipant(diagramId, userId, socketId, saved) ==
    LET after == AddParticipantOn(sessions, diagramId, userId, socketId, serverClock)
    IN /\ serverCall = NoServerCall
       /\ Len(after) <= MaxSessions
       /\ sessions' = IF saved THEN after ELSE sessions
       /\ serverCall' = [op |-> "addParticipant", diagramId |-> diagramId,
                         userId |-> userId, socketId |-> socketId, threw |-> ~saved]
       /\ UNCHANGED <<serverClock, sockets, delivered, presence, inflight, stackVars,
                   svcVars, medVars>>

RemoveParticipant(diagramId, userId, saved) ==
    LET found == FindOneActive(sessions, diagramId)
    IN /\ serverCall = NoServerCall
       /\ sessions' = IF saved THEN RemoveParticipantOn(sessions, diagramId, userId)
                      ELSE sessions
       /\ serverCall' = [op |-> "removeParticipant", diagramId |-> diagramId,
                         userId |-> userId, socketId |-> Null,
                         threw |-> (found # 0 /\ ~saved)]
       /\ UNCHANGED <<serverClock, sockets, delivered, presence, inflight, stackVars,
                   svcVars, medVars>>

RemoveParticipantFromAllSessions(userId, saves) ==
    /\ serverCall = NoServerCall
    /\ sessions' = RemoveParticipantFromAllSessionsOn(sessions, userId, saves)
    /\ serverCall' = [op |-> "removeParticipantFromAllSessions", diagramId |-> Null,
                      userId |-> userId, socketId |-> Null,
                      threw |-> (Cardinality(FindActiveOf(sessions, userId)) > saves)]
    /\ UNCHANGED <<serverClock, sockets, delivered, presence, inflight, stackVars,
                   svcVars, medVars>>

\* ---- the roster handlers step by step: each await is a point where another
\* handler may run.  A handler in flight keeps the document it loaded:
\*   h = [op, diagramId, userId, socketId, found, session]
\*   found: the position of the loaded document, 0 for a document that
\*   addParticipant has built and not yet saved.
MaxInflight == 2              \* handlers waiting at an await at a time
MaxRoster == 3                \* longest list of participants explored

NewSession(diagramId) ==
    [diagramId |-> diagramId, participants |-> <<>>, isActive |-> TRUE]

\* lines 8-31 of addParticipant on the loaded (or new) document
WithParticipant(session, userId, socketId, t) ==
    LET ps == session.participants
        existing == {i \in 1..Len(ps) : ps[i].userId = userId}
        first == CHOOSE i \in existing : \A j \in existing : i <= j
    IN [session EXCEPT !.participants =
            IF existing # {}
            THEN [ps EXCEPT ![first] = [@ EXCEPT !.socketId = socketId,
                                                 !.joinedAt = t]]
            ELSE Append(ps, [userId |-> userId, socketId |-> socketId,
                             joinedAt |-> t])]

\* await CollaborationSession.findOne(...), then the changes made in memory
AddFind(diagramId, userId, socketId) ==
    LET found == FindOneActive(sessions, diagramId)
        loaded == IF found = 0 THEN NewSession(diagramId) ELSE sessions[found]
    IN /\ Cardinality(inflight) < MaxInflight
       /\ inflight' = inflight \cup
              {[op |-> "add", diagramId |-> diagramId, userId |-> userId,
                socketId |-> socketId, found |-> found,
                session |-> WithParticipant(loaded, userId, socketId, serverClock)]}
       /\ UNCHANGED <<sessions, serverClock, sockets, delivered, serverCall,
                      presence, stackVars, svcVars, medVars>>

\* await session.save(): a new document is inserted; of a loaded document
\* the changed paths are written (a pushed participant is appended to the
\* stored list, a changed participant is written at its position)
AddSave(h) ==
    /\ h \in inflight /\ h.op = "add"
    /\ IF h.found = 0
       THEN /\ Len(sessions) < MaxSessions
            /\ sessions' = Append(sessions, h.session)
       ELSE LET stored == sessions[h.found].participants
                mine == {i \in 1..Len(h.session.participants) :
                            h.session.participants[i].userId = h.userId}
                i == CHOOSE i \in mine : TRUE
            IN /\ Len(stored) < MaxRoster
               /\ sessions' =
                   [sessions EXCEPT ![h.found].participants =
                       IF i <= Len(stored) /\ stored[i].userId = h.userId
                       THEN [stored EXCEPT ![i] = h.session.participants[i]]
                       ELSE Append(stored, h.session.participants[i])]
    /\ inflight' = inflight \ {h}
    /\ UNCHANGED <<serverClock, sockets, delivered, serverCall, presence,
                   stackVars, svcVars, medVars>>

\* await findOne; if (!session) return; filter and deactivation in memory
RemoveFind(diagramId, userId) ==
    LET found == FindOneActive(sessions, diagramId)
    IN /\ Cardinality(inflight) < MaxInflight
       /\ inflight' = IF found = 0 THEN inflight
                      ELSE inflight \cup
                           {[op |-> "remove", diagramId |-> diagramId,
                             userId |-> userId, socketId |-> Null, found |-> found,
                             session |-> Leave(sessions[found], userId)]}
       /\ UNCHANGED <<sessions, serverClock, sockets, delivered, serverCall,
                      presence, stackVars, svcVars, medVars>>

\* await session.save(): participants (assigned as a whole) and isActive are
\* written as the handler has them
RemoveSave(h) ==
    /\ h \in inflight /\ h.op = "remove"
    /\ sessions' = [sessions EXCEPT ![h.found].participants = h.session.participants,
                                    ![h.found].isActive = h.session.isActive]
    /\ inflight' = inflight \ {h}
    /\ UNCHANGED <<serverClock, sockets, delivered, serverCall, presence,
                   stackVars, svcVars, medVars>>

\* new Date() moves on
ServerTick ==
    /\ serverCall = NoServerCall
    /\ serverClock < MaxServerClock
    /\ serverClock' = serverClock + 1
    /\ UNCHANGED <<sessions, sockets, delivered, serverCall, presence, inflight,
                   stackVars, svcVars, medVars>>

\* the socket ids given to the roster when it is called directly
RosterSockets == {"s1", "s2"}

\* the roster called directly
SessionsNext ==
    \/ \E diagramId \in DiagramIds, userId \in UserIds, socketId \in RosterSockets,
          saved \in BOOLEAN : AddParticipant(diagramId, userId, socketId, saved)
    \/ \E diagramId \in DiagramIds, userId \in UserIds, saved \in BOOLEAN :
           RemoveParticipant(diagramId, userId, saved)
    \/ \E userId \in UserIds, saves \in 0..Cardinality(DiagramIds) :
           RemoveParticipantFromAllSessions(userId, saves)
    \/ ServerTick
    \/ ClearRecordedCalls

\* concurrent roster handlers of several connections
ConcurrentNext ==
    \/ \E diagramId \in DiagramIds, userId \in UserIds :
           AddFind(diagramId, userId, IF userId = "u1" THEN "s1" ELSE "s2")
    \/ \E h \in inflight : AddSave(h)
    \/ \E diagramId \in DiagramIds, userId \in UserIds : RemoveFind(diagramId, userId)
    \/ \E h \in inflight : RemoveSave(h)

\* ---- presence cache (handleUserPresence) ----
\* updated: whether User.findByIdAndUpdate resolves; when it rejects the call
\* throws before it reaches Redis.  The keys' 1-hour TTL is not modelled.
\* setEx user:U:socket, then setEx socket:S:user
SetUserOnlineOn(cache, userId, socketId, updated) ==
    IF ~updated THEN cache
    ELSE [user |-> MapSet(cache.user, userId, socketId),
          socket |-> MapSet(cache.socket, socketId, userId)]

\* get user:U:socket; if it is set, del user:U:socket and del socket:S:user
SetUserOfflineOn(cache, userId, updated) ==
    IF ~updated \/ userId \notin DOMAIN cache.user THEN cache
    ELSE [user |-> MapDelete(cache.user, {userId}),
          socket |-> MapDelete(cache.socket, {cache.user[userId]})]

\* expire on both keys: the TTLs are renewed, no key is written or deleted
UpdateUserActivityOn(cache, userId) == cache

PresenceCall(op, userId, socketId, threw) ==
    /\ serverCall = NoServerCall
    /\ serverCall' = [op |-> op, diagramId |-> Null, userId |-> userId,
                      socketId |-> socketId, threw |-> threw]
    /\ UNCHANGED <<sessions, serverClock, sockets, delivered, inflight, stackVars,
                   svcVars, medVars>>

SetUserOnline(userId, socketId, updated) ==
    /\ presence' = SetUserOnlineOn(presence, userId, socketId, updated)
    /\ PresenceCall("setUserOnline", userId, socketId, ~updated)

SetUserOffline(userId, updated) ==
    /\ presence' = SetUserOfflineOn(presence, userId, updated)
    /\ PresenceCall("setUserOffline", userId, Null, ~updated)

UpdateUserActivity(userId) ==
    /\ presence' = UpdateUserActivityOn(presence, userId)
    /\ PresenceCall("updateUserActivity", userId, Null, FALSE)

\* the ids of the sockets a user connects with: a socket id names one
\* connection, so no two users share one
SocketsOf(userId) == IF userId = "u1" THEN {"s1", "s2"} ELSE {"s3", "s4"}

\* the presence cache called directly
PresenceNext ==
    \/ \E userId \in UserIds, updated \in BOOLEAN :
           \E socketId \in SocketsOf(userId) : SetUserOnline(userId, socketId, updated)
    \/ \E userId \in UserIds, updated \in BOOLEAN : SetUserOffline(userId, updated)
    \/ \E userId \in UserIds : UpdateUserActivity(userId)
    \/ ClearRecordedCalls

\* ---- socket handlers (setupSocketHandlers) ----
\* the sockets in room diagram:<diagramId> other than the sender:
\* socket.to(room) leaves out the sending socket only
To(socks, socketId, diagramId) ==
    {t \in SocketIds \ {socketId} :
        socks[t].connected /\ diagramId \in socks[t].rooms}

\* one emitted event as a receiving socket gets it
Emitted(socks, event, receivers, socketId, diagramId) ==
    {[event |-> event, to |-> t,
      toUser |-> ObjectOr(socks[t].data, "userId", Null),
      userId |-> ObjectOr(socks[socketId].data, "userId", Null),
      diagramId |-> diagramId] : t \in receivers}

\* socket.to(`diagram:${diagramId}`).emit(event, {userId, ...})
Broadcast(socks, event, socketId, diagramId) ==
    Emitted(socks, event, To(socks, socketId, diagramId), socketId, diagramId)

SocketEvent(op, socketId, diagramId) ==
    /\ serverCall = NoServerCall
    /\ serverCall' =
           [op |-> op, diagramId |-> diagramId,
            userId |-> ObjectOr(sockets[socketId].data, "userId", Null),
            socketId |-> socketId, threw |-> FALSE]

\* io.on('connection', socket => ...)
Connect(socketId) ==
    /\ ~sockets[socketId].connected
    /\ sockets' = [sockets EXCEPT ![socketId].connected = TRUE]
    /\ delivered' = {}
    /\ SocketEvent("connection", socketId, Null)
    /\ UNCHANGED <<sessions, serverClock, presence, inflight, stackVars,
                   svcVars, medVars>>

\* online: whether handleUserPresence.setUserOnline resolves
Authenticate(socketId, data, online) ==
    /\ sockets[socketId].connected
    /\ IF ~Has(data, "userId") \/ ~Has(data, "username")
       THEN /\ delivered' = Emitted(sockets, "auth_error", {socketId}, socketId, Null)
            /\ UNCHANGED <<sockets, presence>>
       ELSE /\ sockets' = [sockets EXCEPT ![socketId].data =
                              [userId |-> data.userId, username |-> data.username]]
            /\ presence' = SetUserOnlineOn(presence, data.userId, socketId, online)
            /\ delivered' = Emitted(sockets', IF online THEN "authenticated"
                                              ELSE "auth_error",
                                    {socketId}, socketId, Null)
    /\ SocketEvent("authenticate", socketId, Null)
    /\ UNCHANGED <<sessions, serverClock, inflight, stackVars, svcVars, medVars>>

\* saved: whether addParticipant's session.save() resolves
JoinDiagram(socketId, data, saved) ==
    /\ sockets[socketId].connected
    /\ IF ~Has(sockets[socketId].data, "userId") \/ ~Has(data, "diagramId")
       THEN /\ delivered' = Emitted(sockets, "error", {socketId}, socketId, Null)
            /\ UNCHANGED <<sockets, sessions>>
       ELSE LET joined == [sockets EXCEPT ![socketId].rooms = @ \cup {data.diagramId}]
                after == AddParticipantOn(sessions, data.diagramId,
                                          sockets[socketId].data.userId, socketId,
                                          serverClock)
            IN /\ Len(after) <= MaxSessions
               /\ sockets' = joined
               /\ sessions' = IF saved THEN after ELSE sessions
               /\ delivered' =
                      IF saved
                      THEN Broadcast(joined, "user_joined", socketId, data.diagramId)
                           \cup Emitted(joined, "participants_updated", {socketId},
                                        socketId, data.diagramId)
                      ELSE Emitted(joined, "error", {socketId}, socketId,
                                   data.diagramId)
    /\ SocketEvent("join_diagram", socketId, ObjectOr(data, "diagramId", Null))
    /\ UNCHANGED <<serverClock, presence, inflight, stackVars,
                   svcVars, medVars>>

\* saved: whether removeParticipant's session.save() resolves
LeaveDiagram(socketId, data, saved) ==
    /\ sockets[socketId].connected
    /\ IF ~Has(sockets[socketId].data, "userId") \/ ~Has(data, "diagramId")
       THEN /\ delivered' = {}
            /\ UNCHANGED <<sockets, sessions>>
       ELSE LET left == [sockets EXCEPT ![socketId].rooms = @ \ {data.diagramId}]
                failed == FindOneActive(sessions, data.diagramId) # 0 /\ ~saved
            IN /\ sockets' = left
               /\ sessions' = IF failed THEN sessions
                              ELSE RemoveParticipantOn(sessions, data.diagramId,
                                       sockets[socketId].data.userId)
               /\ delivered' =
                      IF failed THEN {}
                      ELSE Broadcast(left, "user_left", socketId, data.diagramId)
    /\ SocketEvent("leave_diagram", socketId, ObjectOr(data, "diagramId", Null))
    /\ UNCHANGED <<serverClock, presence, inflight, stackVars,
                   svcVars, medVars>>

DiagramChange(socketId, data) ==
    /\ sockets[socketId].connected
    /\ delivered' =
           IF ~Has(sockets[socketId].data, "userId") \/ ~Has(data, "diagramId")
           THEN Emitted(sockets, "error", {socketId}, socketId, Null)
           ELSE Broadcast(sockets, "diagram_updated", socketId, data.diagramId)
    /\ SocketEvent("diagram_change", socketId, ObjectOr(data, "diagramId", Null))
    /\ UNCHANGED <<sessions, serverClock, sockets, presence, inflight, stackVars,
                   svcVars, medVars>>

\* the socket has left its rooms when the handler runs; offline: whether
\* setUserOffline resolves; saves: the saves that succeed in the removal
Disconnect(socketId, offline, saves) ==
    /\ sockets[socketId].connected
    /\ sockets' = [sockets EXCEPT ![socketId] = NoSocket]
    /\ sessions' = IF Has(sockets[socketId].data, "userId") /\ offline
                   THEN RemoveParticipantFromAllSessionsOn(
                            sessions, sockets[socketId].data.userId, saves)
                   ELSE sessions
    /\ presence' = IF Has(sockets[socketId].data, "userId")
                   THEN SetUserOfflineOn(presence, sockets[socketId].data.userId,
                                         offline)
                   ELSE presence
    /\ delivered' = {}
    /\ SocketEvent("disconnect", socketId, Null)
    /\ UNCHANGED <<serverClock, inflight, stackVars, svcVars, medVars>>

AuthData ==
    {[userId |-> u, username |-> u] : u \in UserIds} \cup {[username |-> "u1"]}

\* the diagrams the socket events are about
RoomData == {[diagramId |-> "d1"], EmptyEvent}

SocketsNext ==
    \/ \E socketId \in SocketIds : Connect(socketId)
    \/ \E socketId \in SocketIds, data \in AuthData, online \in BOOLEAN :
           Authenticate(socketId, data, online)
    \/ \E socketId \in SocketIds, data \in RoomData, saved \in BOOLEAN :
           JoinDiagram(socketId, data, saved)
    \/ \E socketId \in SocketIds, data \in RoomData, saved \in BOOLEAN :
           LeaveDiagram(socketId, data, saved)
    \/ \E socketId \in SocketIds, data \in RoomData : DiagramChange(socketId, data)
    \/ \E socketId \in SocketIds, offline \in BOOLEAN, saves \in 0..1 :
           Disconnect(socketId, offline, saves)
    \/ ClearRecordedCalls

Init == StackInit /\ SvcInit /\ MedInit /\ ServerInit

SpecStack == Init /\ [][StackNext]_vars

SpecBatch == Init /\ [][BatchNext]_vars

SpecGraph == Init /\ [][GraphNext]_vars

SpecRemote == Init /\ [][RemoteNext]_vars

SpecMediator == Init /\ [][MediatorNext]_vars

SpecSessions == Init /\ [][SessionsNext]_vars

SpecSockets == Init /\ [][SocketsNext]_vars

SpecLarge == Init /\ [][LargeNext]_vars

SpecImmediate == Init /\ [][ImmediateNext]_vars

SpecPresence == Init /\ [][PresenceNext]_vars

SpecParent == Init /\ [][ParentNext]_vars

SpecExpiry == Init /\ [][ExpiryNext]_vars

SpecGuard == Init /\ [][GuardNext]_vars

SpecCreate == Init /\ [][CreateNext]_vars

SpecNotFound == Init /\ [][NotFoundNext]_vars

SpecEditor == Init /\ [][EditorNext]_vars

SpecConcurrent == Init /\ [][ConcurrentNext]_vars

\* the loop runs, and the timer callbacks scheduled between chunks are run
SpecChunking ==
    /\ Init /\ [][ChunkingNext]_vars
    /\ WF_vars(LargeLoop) /\ WF_vars(LargeLoopExit)
    /\ WF_vars(BatchUpdateLargeResume) /\ WF_vars(ClearRecordedCalls)

\* ========================================================================
\* Properties
\* ========================================================================
SilentCalls == {"executeSilently", "executeBatchSilently"}

FiredSince == {fired[k].command : k \in (stackCall.firedBefore + 1)..Len(fired)}

\* C7 - Silent-flag restoration: after executeSilently or executeBatchSilently
\* has returned or thrown, the silent flag has the value it had at entry.
C7_SilentFlagRestored ==
    stackCall.op \in SilentCalls => silentMode = stackCall.entrySilent

C7_Witness ==
    /\ stackCall.op = "executeBatchSilently"
    /\ stackCall.threw
    /\ Len(stackCall.commands) = 2
    /\ ~stackCall.entrySilent
    /\ ~silentMode

\* C8 - Silent silence: execute fires commandStack.changed for its command
\* after the handler has returned iff silent mode is off, and nothing is
\* fired by a command run under executeSilently or executeBatchSilently.
C8_SilentSilence ==
    /\ stackCall.op = "execute" =>
           (stackCall.command \in FiredSince <=> (~stackCall.threw /\ ~silentMode))
    /\ stackCall.op \in SilentCalls => Len(fired) = stackCall.firedBefore

C8_Witness ==
    /\ stackCall.op = "executeSilently"
    /\ stackCall.command = CmdOuterPlain
    /\ ~stackCall.threw
    /\ ~stackCall.entrySilent
    /\ stackCall.obs = <<TRUE>>

\* C9 - Silent nesting: an executeSilently made by the handler of an outer
\* executeSilently leaves silent mode on for the rest of the outer command;
\* a failing inner command makes the outer call throw, the flag ends at its
\* value before the outer call, and nothing is fired for either command.
C9_SilentNest ==
    (/\ stackCall.op = "executeSilently"
     /\ stackCall.command \in {CmdOuterOk, CmdOuterFail}
     /\ stackCall.command \in handlers)
    => /\ stackCall.obs = <<TRUE>>
       /\ silentMode = stackCall.entrySilent
       /\ Len(fired) = stackCall.firedBefore
       /\ stackCall.command = CmdOuterFail => stackCall.threw
       /\ (stackCall.command = CmdOuterOk /\ CmdOk \notin handlers) => stackCall.threw

C9_Witness ==
    /\ stackCall.op = "executeSilently"
    /\ stackCall.command = CmdOuterFail
    /\ {CmdOuterFail, CmdFail} \subseteq handlers
    /\ stackCall.threw
    /\ ~stackCall.entrySilent
    /\ ~silentMode
    /\ stackCall.obs = <<TRUE>>

\* ---- batch executor ----
KindRank(op) ==
    CASE op \in {"addElementSilently", "addConnectionSilently"} -> 0
      [] op = "updateBusinessObjectDirectly" -> 1
      [] op = "updateVisualPropertiesDirectly" -> 2
      [] op = "removeElementSilently" -> 3

\* the operations of a list that the executor does not skip as malformed
WellFormed(op) ==
    CASE op.type = "create" -> Has(op, "data")
      [] op.type \in {"business", "visual"} -> Has(op, "elementId") /\ Has(op, "data")
      [] op.type = "remove" -> Has(op, "elementId")
      [] OTHER -> FALSE

\* C5 - batchUpdateOptimized ordering: creates, then business, then visual,
\* then remove operations, each group in input order; when nothing throws,
\* every well-formed operation of the list is applied exactly once.
C5_OptimizedOrdering ==
    svcCall.op = "batchUpdateOptimized" =>
        /\ \A j, k \in 1..Len(applied) : j < k =>
               \/ KindRank(applied[j].op) < KindRank(applied[k].op)
               \/ /\ KindRank(applied[j].op) = KindRank(applied[k].op)
                  /\ applied[j].idx < applied[k].idx
        /\ ~svcCall.threw =>
               {applied[k].idx : k \in 1..Len(applied)} =
                   {k \in 1..Len(svcCall.updates) : WellFormed(svcCall.updates[k])}

C5_Witness ==
    /\ svcCall.op = "batchUpdateOptimized"
    /\ ~svcCall.threw
    /\ Len(applied) = 3
    /\ applied[1].idx = 3
    /\ applied[3].idx = 1

BatchCalls == {"batchUpdate", "batchUpdateOptimized", "batchUpdateLarge.chunk",
               "executeBatchUpdatesSilently"}

C18_RenderGateIdempotence ==
    /\ (svcCall.op = "suspendRendering" /\ svcCall.entrySuspended) =>
           (suspended /\ svcCall.redraws = 0)
    /\ (svcCall.op = "resumeRendering" /\ ~svcCall.entrySuspended) =>
           (~suspended /\ svcCall.redraws = 0)

\* C19 - Deferred repaint: no mutation made while rendering is suspended
\* invokes graphicsFactory.update for its element; the repaint is left to
\* the resume.
C19_DeferredRepaint ==
    svcCall.op # "none" =>
        \A k \in 1..Len(svcCall.painted) : ~svcCall.painted[k].susp

\* ---- incidence ----
IsShape(id) == id \in DOMAIN elements /\ elements[id].kind = "shape"

IsConnection(id) == id \in DOMAIN elements /\ elements[id].kind = "connection"

\* C10 - Incidence consistency: for every registered shape s and every
\* connection c, c is in s.outgoing iff c is registered with source s, and
\* c is in s.incoming iff c is registered with target s (so a removed
\* connection is in neither endpoint's list).
C10_IncidenceConsistency ==
    \A s \in ShapeIds : IsShape(s) =>
        \A c \in Ids :
            /\ c \in Range(elements[s].outgoing)
                   <=> (IsConnection(c) /\ elements[c].source = s)
            /\ c \in Range(elements[s].incoming)
                   <=> (IsConnection(c) /\ elements[c].target = s)

\* the connections a registered element lists as incoming or outgoing
Incident(id) == Range(elements[id].incoming) \cup Range(elements[id].outgoing)

\* C11 - Cascade removal: removeElementSilently(id) on a registered shape
\* that returns has returned true, and afterwards neither the shape nor any
\* connection its incoming and outgoing lists named is in the registry; the
\* connections go first, so the shape is never gone while one of them stays
\* (also when the call throws part-way).
C11_CascadeRemoval ==
    [][(svcCall = NoCall /\ svcCall'.op = "removeElementSilently") =>
          LET id == svcCall'.updates[1].elementId
          IN IsShape(id) =>
               /\ ~svcCall'.threw =>
                      /\ svcCall'.ret = "true"
                      /\ id \notin DOMAIN elements'
               /\ id \notin DOMAIN elements' =>
                      Incident(id) \cap DOMAIN elements' = {}]_vars

C11_Witness ==
    /\ svcCall.op = "removeElementSilently"
    /\ svcCall.updates[1].elementId = "a"
    /\ svcCall.ret = "true"
    /\ svcCall.gone = {"a", "c1"}
    /\ "b" \in DOMAIN elements

\* C12 - Endpoint integrity: every registered connection has a source id and
\* a target id that are both ids of registered elements.
C12_EndpointIntegrity ==
    \A c \in Ids : IsConnection(c) =>
        /\ elements[c].source \in DOMAIN elements
        /\ elements[c].target \in DOMAIN elements

\* ---- event mediator ----
\* C4 - Inbound batch ordering: applyRemoteChanges applies every create
\* before every property change, every property change before every
\* position change and every position change before every remove, changes
\* of one kind in input order; when nothing throws, every change that can be
\* processed is applied exactly once.
C4_InboundOrdering ==
    medCall.op = "applyRemoteChanges" =>
        /\ \A j, k \in 1..Len(applied) : j < k =>
               \/ KindRank(applied[j].op) < KindRank(applied[k].op)
               \/ /\ KindRank(applied[j].op) = KindRank(applied[k].op)
                  /\ applied[j].idx < applied[k].idx
        /\ ~medCall.threw =>
               {applied[k].idx : k \in 1..Len(applied)} =
                   {k \in 1..Len(medCall.info.changes) :
                       LET change == medCall.info.changes[k]
                       IN CASE change.type = "create" -> Has(change, "elementData")
                            [] change.type = "property" -> Has(change, "properties")
                            [] change.type = "position" -> DOMAIN VisualProps(change) # {}
                            [] change.type = "remove" -> TRUE
                            [] OTHER -> FALSE}

C4_Witness ==
    /\ medCall.op = "applyRemoteChanges"
    /\ ~medCall.threw
    /\ Len(applied) = 4
    /\ applied[1].idx = 4
    /\ applied[4].idx = 1
    /\ onRemoteChangeCallback = "ok"

\* the changes of a remote batch that applyRemoteChanges has a mutation for
Processable(change) ==
    CASE change.type = "create" -> Has(change, "elementData")
      [] change.type = "property" -> Has(change, "properties")
      [] change.type = "position" -> DOMAIN VisualProps(change) # {}
      [] change.type = "remove" -> TRUE
      [] OTHER -> FALSE

\* C14 - Batches never abort: a batchUpdate, batchUpdateOptimized or
\* applyRemoteChanges call never throws to its caller, and every operation of
\* the batch that is not malformed has been handed to its mutation, also
\* those that come after an operation whose mutation threw.
C14_BatchesNeverAbort ==
    /\ svcCall.op \in {"batchUpdate", "batchUpdateOptimized"} =>
           /\ ~svcCall.threw
           /\ {applied[k].idx : k \in 1..Len(applied)} =
                  {k \in 1..Len(svcCall.updates) : WellFormed(svcCall.updates[k])}
    /\ medCall.op = "applyRemoteChanges" =>
           /\ ~medCall.threw
           /\ {applied[k].idx : k \in 1..Len(applied)} =
                  {k \in 1..Len(medCall.info.changes) :
                      Processable(medCall.info.changes[k])}

\* ---- server roster ----
HasUser(participants, userId) ==
    \E i \in 1..Len(participants) : participants[i].userId = userId

\* C16 - Roster uniqueness: no userId occurs twice in a session's
\* participants; a completed addParticipant for a userId already in the
\* diagram's active session replaces that entry's socketId and joinedAt and
\* leaves every other entry and the number of entries as they were, and
\* otherwise appends exactly one entry.
C16_RosterUniqueness ==
    /\ [](\A k \in 1..Len(sessions) :
             \A i, j \in 1..Len(sessions[k].participants) :
                 sessions[k].participants[i].userId = sessions[k].participants[j].userId
                     => i = j)
    /\ [][(/\ serverCall'.op = "addParticipant"
           /\ ~serverCall'.threw
           /\ serverCall = NoServerCall) =>
             LET diagramId == serverCall'.diagramId
                 entry == [userId |-> serverCall'.userId,
                           socketId |-> serverCall'.socketId,
                           joinedAt |-> serverClock]
                 k == FindOneActive(sessions, diagramId)
                 before == IF k = 0 THEN <<>> ELSE sessions[k].participants
                 k2 == FindOneActive(sessions', diagramId)
             IN /\ k2 # 0
                /\ IF HasUser(before, entry.userId)
                   THEN sessions'[k2].participants =
                            [i \in 1..Len(before) |->
                                IF before[i].userId = entry.userId THEN entry
                                ELSE before[i]]
                   ELSE sessions'[k2].participants = Append(before, entry)]_vars

C16_Witness ==
    /\ serverCall.op = "addParticipant"
    /\ ~serverCall.threw
    /\ serverCall.userId = "u1"
    /\ Len(sessions) = 1
    /\ sessions[1].participants =
           << [userId |-> "u1", socketId |-> "s2", joinedAt |-> 1],
              [userId |-> "u2", socketId |-> "s1", joinedAt |-> 0] >>

\* C17 - Session activity: a session is active iff it has at least one
\* participant; the removal of the last participant marks it inactive.
C17_SessionActivity ==
    \A k \in 1..Len(sessions) :
        sessions[k].isActive <=> Len(sessions[k].participants) > 0

C17_Witness ==
    /\ serverCall.op = "removeParticipant"
    /\ ~serverCall.threw
    /\ Len(sessions) = 2
    /\ sessions[1].diagramId = serverCall.diagramId
    /\ ~sessions[1].isActive
    /\ sessions[1].participants = <<>>
    /\ sessions[2].isActive

\* C15 - Fan-out exclusion: a diagram_change sent by user U is never delivered
\* as diagram_updated to a socket that belongs to user U.
C15_FanOutExclusion ==
    \A m \in delivered : m.event = "diagram_updated" => m.toUser # m.userId

\* C13 - Remote-processing flag: isProcessingRemoteEvent is false whenever no
\* applyRemoteChanges call is running, also after a call that threw from a
\* mutation or from the onRemoteChange callback; every local event observed
\* during a call saw the flag set and was ignored.
C13_RemoteProcessingFlag ==
    /\ ~isProcessingRemoteEvent
    /\ medCall.op = "applyRemoteChanges" =>
           \A k \in 1..Len(medCall.info.nested) :
               /\ medCall.info.nested[k].processing
               /\ medCall.info.nested[k].ignored

C13_Witness ==
    /\ medCall.op = "applyRemoteChanges"
    /\ medCall.threw
    /\ onRemoteChangeCallback = "throws"
    /\ Len(applied) = 2
    /\ ~isProcessingRemoteEvent

\* C20 - Teardown: when cleanup() has returned the four maps are empty, both
\* callbacks are unset and no timer of the manager is pending: not the
\* debounce timer, not a remote-mark expiry timer, not the sweep interval.
C20_Teardown ==
    medCall.op = "cleanup" =>
        /\ changeBuffer = <<>>
        /\ remoteEventSources = {}
        /\ DOMAIN eventSourceHistory = {}
        /\ DOMAIN changeTracker = {}
        /\ ~onLocalChangeCallback
        /\ onRemoteChangeCallback = "none"
        /\ debounceTimer = NoTimer
        /\ markTimers = {}
        /\ sweepAt = NoTimer

\* C1 - No echo: once a remote change for id i has been applied at time t,
\* no local event about i observed in the 5 s after t reaches onLocalChange.
C1_NoEcho ==
    \A k \in 1..Len(outbound) :
        outbound[k].elementId \in DOMAIN remoteApplied =>
            LET t == remoteApplied[outbound[k].elementId]
            IN ~(t < outbound[k].timestamp
                    /\ outbound[k].timestamp <= t + EVENT_SOURCE_TTL)

\* C2 - Local delivery: an accepted element.changed event for i, with an
\* onLocalChange callback registered, has its 'property' change handed to the
\* callback by the time the debounce delay is over: until then the debounce
\* timer is pending.
C2_LocalDelivery ==
    \A i \in ShapeIds :
        (burst[i].n > 0 /\ burst[i].via = "element.changed" /\ onLocalChangeCallback)
        => \/ debounceTimer # NoTimer
           \/ now < burst[i].last.timestamp + DEBOUNCE_DELAY
           \/ \E k \in 1..Len(outbound) : outbound[k] = burst[i].last

\* C3 - Debounce coalescing: once the debounce timer has fired on a burst of
\* N >= 1 accepted same-kind changes to id i, onLocalChange has been called
\* exactly once with the last change of the burst.
C3_DebounceCoalescing ==
    \A i \in ShapeIds :
        (/\ burst[i].n >= 1
         /\ onLocalChangeCallback
         /\ debounceTimer = NoTimer
         /\ now >= burst[i].last.timestamp + DEBOUNCE_DELAY)
        => Cardinality({k \in 1..Len(outbound) : outbound[k] = burst[i].last}) = 1

\* C21 - Remote-mark lifetime: an id marked by applyRemoteChanges at time t
\* is in remoteEventSources until t + 5 s unless a local event consumes the
\* mark, and is absent after t + 5 s; each marking has its own lifetime, so
\* the expiry of an earlier marking does not take the id out while a later
\* marking of the same id is not yet 5 s old.
C21_RemoteMarkLifetime ==
    /\ [](\A i \in remoteEventSources :
              \E m \in markTimers : m.id = i /\ now <= m.due)
    /\ [][(medCall = NoMedCall /\ medCall'.op = "timer")
              => \A m \in markTimers' :
                     (now < m.due /\ m.id \in remoteEventSources)
                         => m.id \in remoteEventSources']_vars

\* C22 - History expiry: an eventSourceHistory entry is not retained once
\* its timestamp is more than 5 s in the past: whenever 100 ms or more have
\* passed (sweep tick or not), getServiceInfo observes no entry older than
\* 5 s, in particular none for a remote change that was stamped 10 s in the
\* past when it was applied.
C22_HistoryExpiry ==
    [][now' >= now + 100
          => \A i \in DOMAIN eventSourceHistory' :
                 now' - eventSourceHistory'[i].timestamp <= EVENT_SOURCE_TTL]_vars

\* ceil(n / d) for d >= 1
Ceil(n, d) == (n + d - 1) \div d

\* C23 - Large-batch chunking: batchUpdateLarge(ops, chunkSize) with
\* chunkSize >= 1 runs ceil(|ops| / chunkSize) chunks, one batchUpdateOptimized
\* call each, before it completes: every chunk is followed by the next chunk
\* or the completion; the mutations of a chunk run with rendering suspended;
\* rendering is not suspended at the yield point after a chunk, and the
\* completion does not suspend it.
C23_LargeBatchChunking ==
    [][/\ svcCall'.op = "batchUpdateLarge.chunk" /\ svcCall = NoCall
            => /\ large'.active
               /\ large'.processed = large.processed + 1
               /\ large'.processed <= Ceil(large'.n, large'.chunkSize)
               /\ \A k \in 1..Len(applied') : applied'[k].susp
               /\ ~suspended'
       /\ (large.active /\ ~large'.active)
            => /\ svcCall'.op = "batchUpdateLarge.done"
               /\ large.processed = Ceil(large.n, large.chunkSize)
               /\ ~suspended => ~suspended']_vars

\* C24 - Large-batch ordering: the mutation-layer calls batchUpdateLarge makes
\* for a list, taken over all its chunks, come in the order create, then
\* business/property, then visual/position, then remove: no remove of the
\* list is made before a create of the list.
C24_LargeBatchOrdering ==
    \A j, k \in 1..Len(large.log) :
        j < k => KindRank(large.log[j]) <= KindRank(large.log[k])

\* C25 - Immediate path: an accepted shape/connection added or removed event
\* that carries an element makes, inside its handler, exactly one onLocalChange
\* call: a 'create' resp. 'remove' change for the element's id stamped with the
\* current time is appended to what the callback was given before, whatever
\* was tracked for the id earlier; the change buffer and the debounce timer
\* are not touched.
C25_ImmediatePath ==
    [][(/\ medCall = NoMedCall
        /\ medCall'.op \in {"shape.added", "shape.removed"}
        /\ ~medCall'.info.ignored
        /\ Has(medCall'.info.event, "element")
        /\ onLocalChangeCallback)
       => /\ Len(outbound') = Len(outbound) + 1
          /\ SubSeq(outbound', 1, Len(outbound)) = outbound
          /\ LET change == outbound'[Len(outbound')]
             IN /\ change.type = IF medCall'.op = "shape.added"
                                 THEN "create" ELSE "remove"
                /\ change.elementId = medCall'.info.event.element.id
                /\ change.timestamp = now
          /\ changeBuffer' = changeBuffer
          /\ debounceTimer' = debounceTimer]_vars

\* a second shape.added for a within the same millisecond is handed over
C25_Witness ==
    /\ medCall.op = "shape.added"
    /\ ~medCall.info.ignored
    /\ now = 0
    /\ "a" \in DOMAIN changeTracker
    /\ changeTracker["a"].changeCount = 2
    /\ Len(outbound) = 1
    /\ outbound[1].type = "create"
    /\ outbound[1].elementId = "a"

\* C26 - executeBatchSilently: the commands are executed in list order under
\* one silent span (nothing is fired); when none fails the call returns the
\* commands' results in list order; when command k fails, commands 1..k-1
\* have been executed, command k+1 and later are never executed, the call
\* throws, and in every case the silent flag is back at its entry value.
C26_ExecuteBatchSilently ==
    stackCall.op = "executeBatchSilently" =>
        LET calls == stackCall.calls
            commands == stackCall.commands
        IN /\ Len(calls) <= Len(commands)
           /\ \A k \in 1..Len(calls) : calls[k].command = commands[k]
           /\ \A k \in 1..Len(calls) : calls[k].threw <=> (k = Len(calls) /\ stackCall.threw)
           /\ \A k \in 1..Len(calls) : ~calls[k].threw => calls[k].result = Result(commands[k])
           /\ stackCall.threw => Len(calls) >= 1
           /\ ~stackCall.threw => Len(calls) = Len(commands)
           /\ Len(fired) = stackCall.firedBefore
           /\ silentMode = stackCall.entrySilent

\* the second of two commands fails after the first was executed, entry value ON
C26_Witness ==
    /\ stackCall.op = "executeBatchSilently"
    /\ stackCall.commands = <<CmdOk, CmdFail>>
    /\ stackCall.threw
    /\ stackCall.entrySilent
    /\ silentMode
    /\ Len(stackCall.calls) = 2
    /\ ~stackCall.calls[1].threw
    /\ stackCall.calls[2].threw

\* C27 - Presence cache consistency: the two key families mirror each other:
\* user:U:socket = S exactly when socket:S:user = U; so no reverse entry is
\* left for a socket that is not its user's recorded socket, and after
\* setUserOffline(U) no key is left for U or for a socket of U.
C27_PresenceMirror ==
    /\ \A u \in DOMAIN presence.user :
           /\ presence.user[u] \in DOMAIN presence.socket
           /\ presence.socket[presence.user[u]] = u
    /\ \A t \in DOMAIN presence.socket :
           /\ presence.socket[t] \in DOMAIN presence.user
           /\ presence.user[presence.socket[t]] = t
    /\ (serverCall.op = "setUserOffline" /\ ~serverCall.threw) =>
           /\ serverCall.userId \notin DOMAIN presence.user
           /\ \A t \in DOMAIN presence.socket : presence.socket[t] # serverCall.userId

\* the element a registered element's business object names as its $parent
ParentOf(i) == ObjectOr(elements[i].businessObject, "$parent", Null)

\* the ancestors of i: its parent, the parent's parent, ... (n steps at most)
RECURSIVE Ancestors(_, _)
Ancestors(i, n) ==
    IF n = 0 \/ i \notin DOMAIN elements \/ ParentOf(i) = Null THEN {}
    ELSE {ParentOf(i)} \cup Ancestors(ParentOf(i), n - 1)

\* C28 - Parent forest: the $parent references set by setBusinessObjectParent
\* contain no cycle: no registered element is its own parent or ancestor.
C28_ParentForest ==
    \A i \in DOMAIN elements : i \notin Ancestors(i, Cardinality(DOMAIN elements))

\* C29 - Duplicate filter: a debounced local change is dropped only when an
\* earlier change of the same kind on the same id was tracked less than 50 ms
\* before it: an accepted debounced change that is the first change tracked
\* for its id (or the first of its kind within 50 ms) is put into the change
\* buffer, and the debounce timer is armed for it.
C29_DuplicateFilter ==
    [][(/\ medCall = NoMedCall
        /\ medCall'.op \in {"element.changed", "shape.moved"}
        /\ ~medCall'.info.ignored
        /\ Has(medCall'.info.event, "element")
        /\ LET i == medCall'.info.event.element.id
               kind == IF medCall'.op = "shape.moved" THEN "position" ELSE "property"
           IN \/ i \notin DOMAIN changeTracker
              \/ changeTracker[i].lastChange.type # kind
              \/ now - changeTracker[i].lastTimestamp >= DUPLICATE_WINDOW)
       => /\ \E k \in 1..Len(changeBuffer') :
                 /\ changeBuffer'[k].elementId = medCall'.info.event.element.id
                 /\ changeBuffer'[k].timestamp = now
          /\ debounceTimer' = now + DEBOUNCE_DELAY]_vars

\* the listeners whose event names the element it is about
ElementListeners == {"element.changed", "shape.added", "shape.removed", "shape.moved"}

\* C30 - One-shot mark: a local event about a marked id i, observed while
\* isProcessingRemoteEvent is false, is ignored and takes i (and nothing
\* else) out of remoteEventSources; an event about an unmarked id leaves the
\* marks alone and is not ignored, so one mark suppresses exactly one event.
\* An event observed while isProcessingRemoteEvent is true is ignored and
\* consumes no mark.
C30_OneShotMark ==
    /\ [][(/\ medCall = NoMedCall
           /\ medCall'.op \in ElementListeners
           /\ Has(medCall'.info.event, "element")
           /\ ~isProcessingRemoteEvent)
          => LET i == medCall'.info.event.element.id
             IN IF i \in remoteEventSources
                THEN /\ medCall'.info.ignored
                     /\ remoteEventSources' = remoteEventSources \ {i}
                ELSE /\ ~medCall'.info.ignored
                     /\ remoteEventSources' = remoteEventSources]_vars
    /\ [](medCall.op = "applyRemoteChanges"
            => \A k \in 1..Len(medCall.info.nested) :
                   medCall.info.nested[k].processing
                       => /\ medCall.info.nested[k].ignored
                          /\ medCall.info.nested[k].consumed = {})

\* a local event on a marked id has just been ignored and has used the mark up
C30_Witness ==
    /\ medCall.op \in ElementListeners
    /\ Has(medCall.info.event, "element")
    /\ medCall.info.ignored
    /\ medCall.info.event.element.id \in DOMAIN remoteApplied
    /\ medCall.info.event.element.id \notin remoteEventSources
    /\ \E m \in markTimers : m.id = medCall.info.event.element.id

\* the element addElementSilently makes of {id, type: 'bpmn:Task'}
FreshTask(id) ==
    [id |-> id, kind |-> "shape", type |-> "bpmn:Task", businessObject |-> NoProps,
     geom |-> [x |-> 0, y |-> 0, width |-> DefaultWidth, height |-> DefaultHeight],
     parent |-> Null, source |-> Null, target |-> Null,
     incoming |-> <<>>, outgoing |-> <<>>]

\* addElementSilently(TaskData(id)) has returned, called directly or for a
\* remote batch of that one 'create'
CreatedOver(id) ==
    \/ /\ svcCall = NoCall
       /\ \E fail \in BOOLEAN : CallAddElementSilently(id, fail)
       /\ ~svcCall'.threw
    \/ /\ medCall = NoMedCall
       /\ medCall'.op = "applyRemoteChanges"
       /\ medCall'.info.changes \in CreateChanges(now)
       /\ medCall'.info.changes[1].elementId = id
       /\ ~medCall'.threw

\* C31 - Create on an existing id overwrites: when addElementSilently (called
\* directly or for a remote 'create') returns for an id that is already
\* registered, the registry holds the new element under that id, the set of
\* registered ids is the same as before, every other entry is untouched and
\* every id maps to the one element that carries it.
C31_CreateOverwrites ==
    [][\A id \in Ids :
          (id \in DOMAIN elements /\ CreatedOver(id))
              => /\ DOMAIN elements' = DOMAIN elements
                 /\ elements'[id] = FreshTask(id)
                 /\ \A j \in DOMAIN elements : j # id => elements'[j] = elements[j]
                 /\ \A j \in DOMAIN elements' : elements'[j].id = j]_vars

\* a shape was created over the registered connection c1, which a still lists
C31_Witness ==
    /\ svcCall.op = "addElementSilently" \/ medCall.op = "applyRemoteChanges"
    /\ "c1" \in DOMAIN elements
    /\ elements["c1"] = FreshTask("c1")
    /\ "a" \in DOMAIN elements
    /\ elements["a"].outgoing = <<"c1">>

\* a silent mutation is called with an id (for a connection: a source or a
\* target) that is not in the registry
AddressedToMissing ==
    \E id \in Ids \ DOMAIN elements, fail \in BOOLEAN :
        \/ CallUpdateBusinessObjectDirectly(id, fail)
        \/ \E pathParts \in PropertyPaths :
               CallSetBusinessObjectProperty(id, pathParts, fail)
        \/ \E other \in ShapeIds : \/ CallSetBusinessObjectParent(id, other)
                                   \/ CallSetBusinessObjectParent(other, id)
        \/ CallUpdateVisualPropertiesDirectly(id, fail)
        \/ CallRemoveElementSilently(id, fail)
        \/ CallRefreshElementGraphics(id, fail)
        \/ \E c \in ConnectionIds, other \in ShapeIds :
               \/ CallAddConnectionSilently(c, id, other, fail)
               \/ CallAddConnectionSilently(c, other, id, fail)

\* C32 - Not-found is never fatal: a silent mutation addressed to an id that
\* is not in the registry returns null or false, throws nothing (even when a
\* collaborator would throw if it were called) and leaves the registry, every
\* element and every adjacency list as they were.
C32_NotFoundNeverFatal ==
    [][AddressedToMissing
          => /\ svcCall'.ret \in {"null", "false"}
             /\ ~svcCall'.threw
             /\ svcCall'.painted = <<>>
             /\ elements' = elements]_vars

\* a call on a missing id returned false/null while other elements, one of
\* them with a connection, were registered
C32_Witness ==
    /\ svcCall.op \in {"updateBusinessObjectDirectly", "setBusinessObjectProperty",
                       "setBusinessObjectParent", "updateVisualPropertiesDirectly",
                       "removeElementSilently", "refreshElementGraphics",
                       "addConnectionSilently"}
    /\ svcCall.ret \in {"null", "false"}
    /\ ~svcCall.threw
    /\ \E i \in DOMAIN elements : elements[i].outgoing # <<>>
    /\ DOMAIN elements # Ids

\* the local-event listeners of the mediator
LocalListeners == ElementListeners \cup {"commandStack.changed"}

CommandElements(event) ==
    IF ~Has(event, "command") \/ ~Has(event, "context") THEN {}
    ELSE IF event.command = "element.updateProperties" /\ Has(event.context, "element")
         THEN {event.context.element.id}
    ELSE IF event.command = "elements.move" /\ Has(event.context, "shapes")
         THEN {event.context.shapes[k].id : k \in 1..Len(event.context.shapes)}
    ELSE {}

\* C34 - The ignore decision does not depend on the event kind: a
\* commandStack.changed event (element.updateProperties or elements.move)
\* about element i is ignored in every state in which an element.changed
\* event about i would be ignored.
C34_IgnoreByKind ==
    [][(medCall = NoMedCall /\ medCall'.op = "commandStack.changed")
          => \A i \in CommandElements(medCall'.info.event) :
                 ShouldIgnoreEvent(MedState, [element |-> LocalElement(i, 10)],
                                   now).ignore
                     => medCall'.info.ignored]_vars

\* a change of the batch that applyRemoteChanges passes over: its kind is not
\* one of the four, it lacks the data of its kind, or it addresses an id that
\* is neither registered nor created by the batch (creations run first)
Skipped(changes, k, els) ==
    LET change == changes[k]
        created == {changes[j].elementData.id :
                        j \in {j \in 1..Len(changes) :
                                  /\ changes[j].type = "create"
                                  /\ Has(changes[j], "elementData")
                                  /\ Has(changes[j].elementData, "id")}}
    IN \/ change.type \notin {"create", "property", "position", "remove"}
       \/ change.type = "create" /\ ~Has(change, "elementData")
       \/ change.type = "property" /\ ~Has(change, "properties")
       \/ /\ change.type \in {"property", "position", "remove"}
          /\ change.elementId \notin (DOMAIN els) \cup created

\* C35 - Marks only for applied changes: after applyRemoteChanges, every id
\* that is newly in remoteEventSources, and every id whose history entry was
\* rewritten as remote, is the id of a change of the batch that was not
\* skipped.
C35_MarksOnlyApplied ==
    [][(medCall = NoMedCall /\ medCall'.op = "applyRemoteChanges")
          => LET changes == medCall'.info.changes
                 done == {changes[k].elementId :
                              k \in {k \in 1..Len(changes) :
                                        ~Skipped(changes, k, elements)}}
             IN /\ remoteEventSources' \ remoteEventSources \subseteq done
                /\ \A i \in DOMAIN eventSourceHistory' :
                       (/\ eventSourceHistory'[i].source = "remote"
                        /\ \/ i \notin DOMAIN eventSourceHistory
                           \/ eventSourceHistory[i] # eventSourceHistory'[i])
                           => i \in done]_vars

\* C36 - batchUpdateLarge terminates: whatever the list and the chunk size,
\* a call that has started (its loop running or its chunks being processed)
\* comes to its end, given that the loop and the timer callbacks are run.
C36_LargeTerminates ==
    (large.looping \/ large.active) ~> (~large.looping /\ ~large.active)

\* C37 - At most one active session per diagram, under every interleaving of
\* addParticipant / removeParticipant handlers at their awaits: no diagram
\* has two documents with isActive = true, and the save of a removal takes
\* no other user out of the diagram's roster.
C37_OneActiveSession ==
    /\ [](\A d \in DiagramIds :
              Cardinality({k \in 1..Len(sessions) :
                              sessions[k].diagramId = d /\ sessions[k].isActive}) <= 1)
    /\ [][\A h \in inflight :
              RemoveSave(h)
                  => \A k \in 1..Len(sessions) :
                         \A i \in 1..Len(sessions[k].participants) :
                             (sessions[k].isActive
                                  /\ sessions[k].participants[i].userId # h.userId)
                                 => \E j \in 1..Len(sessions'[k].participants) :
                                        sessions'[k].participants[j].userId =
                                            sessions[k].participants[i].userId]_vars

\* C38 - Failed authentication leaves the socket unauthenticated: an
\* authenticate request that is answered with auth_error leaves socket.data
\* as it was, so it sets no userId on the socket.
C38_FailedAuthUnauthenticated ==
    [][\A s \in SocketIds :
          (/\ serverCall = NoServerCall
           /\ serverCall'.op = "authenticate"
           /\ serverCall'.socketId = s
           /\ \E m \in delivered' : m.event = "auth_error" /\ m.to = s)
              => sockets'[s].data = sockets[s].data]_vars

\* C39 - Room membership matches the roster: between handler executions,
\* every connected socket that is in room diagram:D belongs to a user who is
\* listed in the participants of an active session of D.
C39_RoomMatchesRoster ==
    \A s \in SocketIds :
        \A d \in sockets[s].rooms :
            /\ Has(sockets[s].data, "userId")
            /\ \E k \in 1..Len(sessions) :
                   /\ sessions[k].diagramId = d
                   /\ sessions[k].isActive
                   /\ \E i \in 1..Len(sessions[k].participants) :
                          sessions[k].participants[i].userId = sockets[s].data.userId

\* C40 - Batch and single application agree: applySilentBatchUpdates(list)
\* leaves the registry, the positions and the business objects as calling
\* applySilentUpdate on each event of the list, in order, would.
C40_BatchAgreesWithSingle ==
    [][\A changeEvents \in SeqsUpTo(ChangeEvents, MaxModelingBatch) :
          ApplySilentBatchUpdates(changeEvents)
              => elements' = ApplyEachOn(SvcState, changeEvents).els]_vars

====
